---- MODULE Spec2Model ----
(***************************************************************************)
(* Deployment engine of the device agent (agent/deployment_manager.py,     *)
(* agent/state_store.py, agent/executor.py, agent/device_agent.py and the  *)
(* apply verb of agent/symphony/device_provider.py) for ONE stack name.    *)
(*                                                                         *)
(* Every state-store mutator (a load, a change and a save) and every       *)
(* filesystem or process operation of the engine is one step of the        *)
(* calling thread, so that threads interleave, and the agent can crash,    *)
(* between any two of them.                                                *)
(*                                                                         *)
(* download_with_checksum and extract_archive (agent/artifact.py) are      *)
(* operators, computed as the code computes them, and StateStore.save is   *)
(* also modelled file by file; each of the three has a specification of    *)
(* its own (SpecDownload, SpecExtract, SpecStore) beside those of the      *)
(* engine (Spec, SpecConc, SpecCrash, SpecDeep).                           *)
(***************************************************************************)
EXTENDS Naturals, Sequences, FiniteSets, TLC

\* ------------------------------------------------------------------ bounds
MaxVersions == 2          \* versions of the stack that requests may name
MaxCalls == 3             \* operations invoked in one behaviour of sequential calls
MaxConcCalls == 2         \* operations invoked in one behaviour of concurrent calls
MaxDeepCalls == 4         \* operations invoked in one behaviour of apply and remove calls
MaxRetries == 2           \* largest retries argument of download_with_checksum
MaxBackoff == 2           \* largest backoff_seconds argument of download_with_checksum
MaxMembers == 2           \* members of an archive
MaxSaves == 2             \* mutator calls that one state file goes through
MaxStopPolls == 2         \* polls of the pid that stop_timeout_seconds allows
MaxFairCalls == 2         \* operations invoked in one behaviour of calls that are run to their end
MaxWorkers == 2           \* worker threads one HeartbeatManager creates
MaxGrace == 1             \* largest start_grace_seconds of the grace wait on its own

None == "None"
\* process.pid when no pid is recorded (the code tests it with `not pid`)
NoPid == 0
\* a symlink that does not exist
NoLink == <<>>
VersionNames == <<"1.0.0", "1.0.1", "1.0.2", "1.0.3">>
Versions == {VersionNames[i] : i \in 1..MaxVersions}
Threads == {"t1", "t2"}
MainThread == "t1"
\* runtime.start_command: "sleep" stays up, "false" exits at once
Commands == {"sleep", "false"}
Ops == {"apply", "remove", "restart", "bootstrap"}

\* ReleaseSpec, reduced to the fields the engine's control flow reads
ReleaseSpec == [version : Versions, start_command : Commands]
\* no release (a missing key of releases, an unset local)
NoRelease == [version |-> None, start_command |-> None]

\* the target string of a symlink to a release directory
RelPath(v) == <<"releases", v>>

\* ------------------------------------------------------------- state store
_default_state ==
    [current |-> None, previous |-> None,
     state |-> "idle", target_version |-> None,
     last_failure |-> None, last_failure_at |-> FALSE,
     installed |-> FALSE, activated |-> FALSE, rolled_back |-> FALSE,
     pid |-> NoPid, started_at |-> FALSE,
     releases |-> [v \in Versions |-> NoRelease]]

\* record_release that forgets the upsert
record_release_noupsert(d, release) == d

record_release(d, release) ==
    [d EXCEPT !.releases[release.version] = release]

\* update_deployment_state that never records the failure
update_deployment_state_nofailure(d, state_value, target_version, last_failure) ==
    [d EXCEPT !.state = state_value,
              !.target_version = IF target_version # None THEN target_version ELSE @]

update_deployment_state(d, state_value, target_version, last_failure) ==
    [d EXCEPT !.state = state_value,
              !.target_version = IF target_version # None THEN target_version ELSE @,
              !.last_failure = IF last_failure # None THEN last_failure ELSE @,
              !.last_failure_at = IF last_failure # None THEN TRUE ELSE @]

\* set_current with its two arguments exchanged
set_current_swapped(d, current, previous) ==
    [d EXCEPT !.current = previous, !.previous = current, !.activated = TRUE]

set_current(d, current, previous) ==
    [d EXCEPT !.current = current, !.previous = previous, !.activated = TRUE]

record_install_timestamp(d, version) ==
    [d EXCEPT !.installed = TRUE, !.target_version = version]

record_rollback_timestamp(d, version) ==
    [d EXCEPT !.rolled_back = TRUE,
              !.target_version = IF version # None THEN version ELSE @]

update_process(d, pid, started_at) ==
    [d EXCEPT !.pid = pid, !.started_at = started_at]

\* DeploymentManager._release_from_state
_release_from_state(state, version) ==
    IF version \in Versions THEN state.releases[version] ELSE NoRelease

\* ------------------------------------------- state store: the state file
\* the path of the state file
StatePath == <<"state.json">>

\* the mutators of StateStore
Mutators ==
    {"record_release", "update_deployment_state", "set_current",
     "record_install_timestamp", "record_rollback_timestamp", "update_process"}

\* a document of the state file, as the mutator calls that made it from the
\* default one
DefaultDocument == <<>>

\* a file that does not exist (a file that exists is the document json.dump
\* writes and how much of its text is written: "none", "some" or "all")
NoFile == [doc |-> DefaultDocument, written |-> "absent"]

\* save that writes the state file in place
tmp_path_inplace(path) == path

\* tmp_path = f"{self._state_path}.tmp"
tmp_path(path) == Append(path, ".tmp")

\* StateStore.load: no file, or text that json.load refuses (any text short of
\* the whole document), gives the default document. _merge_defaults adds nothing
\* to a document that save wrote, which holds every key
load(files) ==
    IF files[StatePath].written = "all" THEN files[StatePath].doc ELSE DefaultDocument

\* os.replace(source, target)
replace(files, source, target) ==
    IF source = target THEN files
    ELSE [f \in DOMAIN files |->
             IF f = target THEN files[source]
             ELSE IF f = source THEN NoFile ELSE files[f]]

\* --------------------------------------------------- artifact.py: download
\* a checksum string: an optional "<scheme>:" prefix and the hex digits
Schemes == {"", "sha256", "md5"}
Hexes == {"ab", "AB"}
Checksums == [scheme : Schemes, hex : Hexes]
\* what one attempt meets: the connection is refused (urlopen raises), the stream
\* breaks after some bytes, or all bytes arrive and hash to "ab" or to "cd"
Served == {"refused", "broken", "ab", "cd"}
\* a file that does not exist
Absent == "absent"

\* str.lower on the hex digits
lower(hex) == IF hex = "AB" THEN "ab" ELSE hex

\* the ValueError of parse_sha256
Unsupported == "Only sha256 checksums are supported"

\* parse_sha256: a prefix other than sha256: is refused, sha256: is cut off
parse_sha256(checksum) ==
    IF checksum.scheme # "" /\ checksum.scheme # "sha256"
    THEN Unsupported
    ELSE checksum.hex

\* _download: urlopen, then the bytes are streamed into tmp_path, then the digest
\* is compared; `part` is the content of tmp_path before, the result holds the
\* content after and the exception, if any
_download(served, part, expected) ==
    CASE served = "refused" -> [part |-> part, error |-> "URLError"]
      [] served = "broken" -> [part |-> "partial", error |-> "URLError"]
      [] OTHER -> [part |-> served,
                   error |-> IF served # expected THEN "Checksum mismatch" ELSE None]

\* the sleep that follows every failed attempt, the last one too
SleepFollows_always(attempt, retries) == TRUE

\* if attempt < retries - 1: (the sleep follows)
SleepFollows(attempt, retries) == attempt + 1 < retries

\* one iteration of the loop of download_with_checksum; d.attempt is the loop
\* variable, d.tried the calls of _download so far
download_attempt(d) ==
    LET r == _download(d.src[d.attempt + 1], d.part, d.expected) IN
    IF r.error = None
    THEN [d EXCEPT !.dest = r.part, !.part = Absent, !.tried = @ + 1,
                   !.status = "returned"]
    ELSE [d EXCEPT !.last_error = r.error,
                   !.part = Absent,
                   !.tried = @ + 1,
                   !.sleeps = IF SleepFollows(d.attempt, d.retries)
                              THEN Append(@, d.backoff * (2 ^ d.attempt))
                              ELSE @,
                   !.attempt = @ + 1]

\* for attempt in range(retries): ...; raise RuntimeError(...)
RECURSIVE download_loop(_)
download_loop(d) ==
    IF d.status # "running" THEN d
    ELSE IF d.attempt >= d.retries THEN [d EXCEPT !.status = "RuntimeError"]
    ELSE download_loop(download_attempt(d))

\* download_with_checksum(uri, destination, checksum, retries, timeout, backoff):
\* src[i] is what attempt i of the uri meets, dest and part the contents of
\* destination and destination.part before the call. The result holds them after
\* the call, with the attempts, the sleeps and how the call ended
download_with_checksum(src, dest, part, checksum, retries, backoff) ==
    LET d == [src |-> src, retries |-> retries, backoff |-> backoff,
              expected |-> lower(parse_sha256(checksum)),
              dest |-> dest, part |-> part,
              attempt |-> 0, tried |-> 0, sleeps |-> <<>>, last_error |-> None,
              status |-> "running"]
    IN  IF parse_sha256(checksum) = Unsupported
        THEN [d EXCEPT !.status = "ValueError", !.last_error = Unsupported]
        ELSE download_loop(d)

\* DownloadConfig.retries and DownloadConfig.backoff_seconds
DownloadRetries == 3
DownloadBackoff == 2

\* how the download of _install_release can end, for each content of incoming_file
\* before it: the uri serves anything on each attempt and the payload's checksum
\* is any string
InstallDownloads ==
    [dest \in {Absent, "stale"} |->
        {[status |-> r.status, last_error |-> r.last_error, dest |-> r.dest] :
            r \in {download_with_checksum(src, dest, Absent, checksum,
                                          DownloadRetries, DownloadBackoff) :
                      src \in [1..DownloadRetries -> Served],
                      checksum \in Checksums}}]

\* ---------------------------------------------------- artifact.py: extract
\* a path is the sequence of its components; an absolute path begins with "/"
Root == "/"
\* the directory extract_archive extracts into, and the working directory
Destination == <<Root, "stack", "v.tmp">>
Cwd == <<Root, "cwd">>
\* the names of the members of an archive, and the targets of its links
MemberNames ==
    {<<"a">>, <<"a", "b">>, <<"..", "x">>, <<"a", "..", "..", "x">>, <<Root, "etc", "x">>}
LinkMemberNames == {<<"l">>, <<"a", "l">>}
LinkNames == {<<"a">>, <<"..", "x">>, <<Root, "etc">>}
\* TarInfo, reduced to name, type and linkname (a zip member has a name only)
Members ==
    [name : MemberNames, type : {"file"}, linkname : {<<>>}]
        \cup [name : LinkMemberNames, type : {"symlink", "hardlink"}, linkname : LinkNames]
\* the format extract_archive finds
Formats == {"tar", "zip", "other"}
\* TarFile.extraction_filter when extractall gets no filter: the interpreter's
\* default, which trusts the archive fully or applies the data filter
TarFilters == {"fully_trusted", "data"}

IsAbs(path) == path # <<>> /\ path[1] = Root

\* os.path.join(a, b)
join(a, b) == IF IsAbs(b) THEN b ELSE a \o b

\* os.path.dirname
dirname(path) == IF path = <<>> THEN <<>> ELSE SubSeq(path, 1, Len(path) - 1)

\* os.path.normpath of an absolute path: "." is dropped, ".." drops the component
\* before it and is dropped itself at the root
RECURSIVE normpath(_, _)
normpath(done, rest) ==
    IF rest = <<>> THEN done
    ELSE LET c == Head(rest) IN
         CASE c = "." -> normpath(done, Tail(rest))
           [] c = ".." -> normpath(IF Len(done) > 1 THEN dirname(done) ELSE done,
                                   Tail(rest))
           [] OTHER -> normpath(Append(done, c), Tail(rest))

\* os.path.abspath
abspath(path) ==
    LET p == join(Cwd, path) IN normpath(<<Root>>, Tail(p))

\* os.path.commonpath([p, q]): the longest common leading sequence of components
commonpath(p, q) ==
    LET n == CHOOSE k \in 0..Len(p) :
                 /\ k <= Len(q)
                 /\ SubSeq(p, 1, k) = SubSeq(q, 1, k)
                 /\ \A j \in (k + 1)..Len(p) :
                        j > Len(q) \/ SubSeq(p, 1, j) # SubSeq(q, 1, j)
    IN  SubSeq(p, 1, n)

\* the check without abspath
_is_within_directory_unnormalised(directory, target) ==
    commonpath(directory, target) = directory

\* _is_within_directory
_is_within_directory(directory, target) ==
    commonpath(abspath(directory), abspath(target)) = abspath(directory)

\* where the link of a tar member points: a symlink's target is relative to the
\* directory of the link, a hardlink's target to the destination
LinkTarget(destination, member) ==
    IF member.type = "symlink"
    THEN abspath(join(join(destination, dirname(member.name)), member.linkname))
    ELSE abspath(join(destination, member.linkname))

\* tarfile's data filter refuses the member: a link with an absolute target or
\* with a target outside the destination
DataFilterRefuses(destination, member) ==
    /\ member.type \in {"symlink", "hardlink"}
    /\ \/ IsAbs(member.linkname)
       \/ ~_is_within_directory(destination, LinkTarget(destination, member))

\* what extracting one member creates
Entry(destination, member, format) ==
    [path |-> abspath(join(destination, member.name)),
     type |-> IF format = "tar" THEN member.type ELSE "file",
     target |-> IF format = "tar" /\ member.type # "file"
                THEN LinkTarget(destination, member) ELSE <<>>]

\* TarFile.extractall and ZipFile.extractall: the members are extracted in their
\* order; under the data filter the first refused member of a tar raises
\* FilterError, and the members before it stay extracted
RECURSIVE extractall(_, _, _, _, _)
extractall(members, destination, format, filter, written) ==
    IF members = <<>> THEN [status |-> "ok", written |-> written]
    ELSE LET member == Head(members) IN
         IF format = "tar" /\ filter = "data" /\ DataFilterRefuses(destination, member)
         THEN [status |-> "FilterError", written |-> written]
         ELSE extractall(Tail(members), destination, format, filter,
                         written \cup {Entry(destination, member, format)})

\* _safe_extract_tar and _safe_extract_zip: the name of every member is checked,
\* and then extractall runs
_safe_extract(members, destination, format, filter) ==
    IF \E i \in DOMAIN members :
          ~_is_within_directory(destination, join(destination, members[i].name))
    THEN [status |-> "Blocked archive entry outside destination", written |-> {}]
    ELSE extractall(members, destination, format, filter, {})

\* extract_archive(archive_path, destination)
extract_archive(archive, destination, filter) ==
    IF archive.format \in {"tar", "zip"}
    THEN _safe_extract(archive.members, destination, archive.format, filter)
    ELSE [status |-> "Unsupported archive format", written |-> {}]

\* ------------------------------------------------------------------- state
VARIABLES
    pc,        \* pc[t]: the next operation of thread t ("idle": no call in progress)
    loc,       \* loc[t]: the local variables of t's call
    ret,       \* ret[t]: the outcome of t's last completed call, with its history
    doc,       \* the persisted state document state.json, as load() returns it
    dirs,      \* versions v with a directory releases/<v>
    tmps,      \* versions v with a directory releases/<v>.tmp
    curLink,   \* target of the symlink current, or None
    prevLink,  \* target of the symlink previous, or None
    alive,     \* pids of the live child processes of the stack
    nextPid,   \* the pid the next child gets
    lock,      \* holder of self._locks[name], or None
    calls,     \* operations invoked so far
    incoming,  \* versions v with a file incoming/<name>-<v>.artifact
    store,     \* StateStore on its own: the state file, its .tmp and a mutator's steps
    dl,        \* download_with_checksum on its own: its arguments and its outcome
    ar,        \* extract_archive on its own: the archive and the outcome
    gr,        \* _wait_for_grace on its own: the clock, the child and the verdict
    pp,        \* parse_release_payload on its own: the payload and what was resolved
    pv,        \* MutoDeviceProvider: the component registry and the last request
    nu,        \* needs_update on its own: the two component lists and the answer
    hb,        \* HeartbeatManager: its fields, its callers and its worker threads
    lk,        \* self._locks of a manager with two stacks, and the threads using it
    sp         \* _stop_current_process on its own: the recorded pid, its process, the signals

disk == <<doc, dirs, tmps, curLink, prevLink>>
procs == <<alive, nextPid>>
\* the variables of the functions that are also run on their own
more == <<gr, pp, pv, nu, hb, lk, sp>>
sub == <<store, dl, ar, more>>
\* the variables of the deployment engine
engine == <<pc, loc, ret, doc, dirs, tmps, curLink, prevLink, alive, nextPid, lock,
            calls, incoming>>
vars == <<pc, loc, ret, doc, dirs, tmps, curLink, prevLink, alive, nextPid, lock, calls,
          incoming, store, dl, ar, gr, pp, pv, nu, hb, lk, sp>>

\* the part of the stack a call's history remembers from the moment it began
Snapshot ==
    [doc |-> doc, dirs |-> dirs, tmps |-> tmps, curLink |-> curLink,
     prevLink |-> prevLink, alive |-> alive]
NoSnapshot ==
    [doc |-> _default_state, dirs |-> {}, tmps |-> {}, curLink |-> NoLink,
     prevLink |-> NoLink, alive |-> {}]

IdleLoc ==
    [op |-> None, rel |-> NoRelease, state |-> _default_state, previous |-> None,
     tgt |-> NoRelease, prevver |-> None, rbto |-> None, ctx |-> None,
     handle |-> NoPid,
     reason |-> None, recovery |-> FALSE,
     pre |-> NoSnapshot, trace |-> <<>>, errs |-> <<>>, starts |-> <<>>, killed |-> {}]

NoRet ==
    [op |-> None, rel |-> NoRelease, status |-> None, version |-> None,
     pre |-> NoSnapshot, trace |-> <<>>, errs |-> <<>>, starts |-> <<>>, killed |-> {},
     recovery |-> FALSE]

\* the functions that are also run on their own are not running
NoStore == [phase |-> None]
NoDownload == [phase |-> None]
NoArchive == [phase |-> None]
NoGrace == [phase |-> None]
NoPayload == [phase |-> None]
NoProvider == [phase |-> None]
NoUpdate == [phase |-> None]
NoHeartbeat == [phase |-> None]
NoLocks == [phase |-> None]
NoStop == [phase |-> None]

\* none of the functions and components that are run on their own is running
MoreIdle ==
    /\ gr = NoGrace
    /\ pp = NoPayload
    /\ pv = NoProvider
    /\ nu = NoUpdate
    /\ hb = NoHeartbeat
    /\ lk = NoLocks
    /\ sp = NoStop

\* the stack of a new agent: no state file, no release, no child
EngineInit ==
    /\ pc = [t \in Threads |-> "idle"]
    /\ loc = [t \in Threads |-> IdleLoc]
    /\ ret = [t \in Threads |-> NoRet]
    /\ doc = _default_state
    /\ dirs = {}
    /\ tmps = {}
    /\ curLink = NoLink
    /\ prevLink = NoLink
    /\ alive = {}
    /\ nextPid = 1
    /\ lock = None
    /\ calls = 0
    /\ incoming = {}

Init ==
    /\ EngineInit
    /\ store = NoStore
    /\ dl = NoDownload
    /\ ar = NoArchive
    /\ MoreIdle

\* CommandExecutor.is_pid_running
is_pid_running(pid) == pid # NoPid /\ pid \in alive

\* ----------------------------------------------------------------- helpers
\* thread t goes on to `label` with locals l
Step(t, label, l) ==
    /\ pc' = [pc EXCEPT ![t] = label]
    /\ loc' = [loc EXCEPT ![t] = l]
    /\ UNCHANGED <<ret, lock>>

\* the call of t ends with `status` (a DeploymentOutcome, or the end of a call that
\* returns nothing); `unlock` when the call ran inside `with lock:`
Return(t, l, status, version, unlock) ==
    /\ pc' = [pc EXCEPT ![t] = "idle"]
    /\ ret' = [ret EXCEPT ![t] =
                 [op |-> l.op, rel |-> l.rel, status |-> status,
                  version |-> version, pre |-> l.pre, trace |-> l.trace,
                  errs |-> l.errs, starts |-> l.starts, killed |-> l.killed,
                  recovery |-> l.recovery]]
    /\ loc' = [loc EXCEPT ![t] = IdleLoc]
    /\ lock' = IF unlock THEN None ELSE lock

\* the locals after a write of deployment.state: the call's history keeps it
Traced(l, state_value) == [l EXCEPT !.trace = Append(@, state_value)]

\* ------------------------------------------------------------ a call begins
FirstLabel(op) ==
    CASE op = "apply" -> "p_ensure"
      [] op = "remove" -> "r_lock"
      [] op = "restart" -> "rs_load"
      [] op = "bootstrap" -> "b_cleanup"

\* the releases a call of `op` is made with (remove_release reads the version only)
Requests(op) ==
    CASE op = "apply" -> ReleaseSpec
      [] op = "remove" -> {r \in ReleaseSpec : r.start_command = "sleep"}
      [] OTHER -> {NoRelease}

\* a thread invokes MutoDeviceProvider.apply (one component), remove_release,
\* restart_current_if_needed or _bootstrap_existing_stacks
Invoke(t, limit) ==
    /\ pc[t] = "idle"
    /\ calls < limit
    /\ \E op \in Ops :
         \E release \in Requests(op) :
            /\ pc' = [pc EXCEPT ![t] = FirstLabel(op)]
            /\ loc' = [loc EXCEPT ![t] =
                          [IdleLoc EXCEPT !.op = op, !.rel = release, !.pre = Snapshot]]
    /\ ret' = [ret EXCEPT ![t] = NoRet]
    /\ calls' = calls + 1
    /\ UNCHANGED <<lock, disk, procs, incoming, sub>>

Call(t) == Invoke(t, MaxCalls)
ConcCall(t) == Invoke(t, MaxConcCalls)

\* ------------------------------------------------ ensure_stack_ready, sweep
\* a sweep that removes nothing
_cleanup_tmp_dirs_keep(entries) == entries

\* DeploymentManager._cleanup_tmp_dirs: every releases/*.tmp is removed
_cleanup_tmp_dirs(entries) == {}

\* MutoDeviceProvider.apply: self._manager.ensure_stack_ready(release.name),
\* called before apply_release and outside the stack's lock
ProviderEnsure(t) ==
    /\ pc[t] = "p_ensure"
    /\ tmps' = _cleanup_tmp_dirs(tmps)
    /\ Step(t, "a_lock", loc[t])
    /\ UNCHANGED <<doc, dirs, curLink, prevLink, procs, calls, incoming, sub>>

\* ------------------------------------------------------------ apply_release
\* lock = self._locks.setdefault(release.name, ...); with lock:
ApplyLock(t) ==
    /\ pc[t] = "a_lock"
    /\ lock = None
    /\ lock' = t
    /\ pc' = [pc EXCEPT ![t] = "a_ensure"]
    /\ UNCHANGED <<loc, ret, disk, procs, calls, incoming, sub>>

\* self.ensure_stack_ready(release.name)
ApplyEnsure(t) ==
    /\ pc[t] = "a_ensure"
    /\ tmps' = _cleanup_tmp_dirs(tmps)
    /\ Step(t, "a_load", loc[t])
    /\ UNCHANGED <<doc, dirs, curLink, prevLink, procs, calls, incoming, sub>>

\* state = store.load()
ApplyLoad(t) ==
    /\ pc[t] = "a_load"
    /\ Step(t, "a_record", [loc[t] EXCEPT !.state = doc])
    /\ UNCHANGED <<disk, procs, calls, incoming, sub>>

\* store.record_release(self._release_to_dict(release))
ApplyRecord(t) ==
    /\ pc[t] = "a_record"
    /\ doc' = record_release(doc, loc[t].rel)
    /\ Step(t, "a_check", loc[t])
    /\ UNCHANGED <<dirs, tmps, curLink, prevLink, procs, calls, incoming, sub>>

\* the idempotence check without the comparison of the versions
IsNoop_anyversion(state, release) == is_pid_running(state.pid)

\* the idempotence check of apply_release
IsNoop(state, release) ==
    state.current = release.version /\ is_pid_running(state.pid)

\* an idempotence check whose noop return leaves the with block with the lock held
ApplyCheck_holdlock(t) ==
    /\ pc[t] = "a_check"
    /\ IF IsNoop(loc[t].state, loc[t].rel)
       THEN Return(t, loc[t], "noop", loc[t].rel.version, FALSE)
       ELSE IF loc[t].rel.version \notin dirs
            THEN Step(t, "a_installing", loc[t])
            ELSE Step(t, "a_prev", loc[t])
    /\ UNCHANGED <<disk, procs, calls, incoming, sub>>

\* the idempotence check, then the choice between installing and activating
ApplyCheck(t) ==
    /\ pc[t] = "a_check"
    /\ IF IsNoop(loc[t].state, loc[t].rel)
       THEN Return(t, loc[t], "noop", loc[t].rel.version, TRUE)
       ELSE IF loc[t].rel.version \notin dirs
            THEN Step(t, "a_installing", loc[t])
            ELSE Step(t, "a_prev", loc[t])
    /\ UNCHANGED <<disk, procs, calls, incoming, sub>>

\* store.update_deployment_state("installing", target_version=release.version)
ApplyInstalling(t) ==
    /\ pc[t] = "a_installing"
    /\ doc' = update_deployment_state(doc, "installing", loc[t].rel.version, None)
    /\ Step(t, "i_download", Traced(loc[t], "installing"))
    /\ UNCHANGED <<dirs, tmps, curLink, prevLink, procs, calls, incoming, sub>>

\* _install_release: download_with_checksum(release.artifact.uri, incoming_file,
\* release.artifact.checksum, retries, timeout_seconds, backoff_seconds) returns or
\* raises
InstallDownload(t) ==
    /\ pc[t] = "i_download"
    /\ LET v == loc[t].rel.version IN
       \E r \in InstallDownloads[IF v \in incoming THEN "stale" ELSE Absent] :
          /\ incoming' = IF r.dest # Absent THEN incoming \cup {v} ELSE incoming \ {v}
          /\ IF r.status = "returned"
             THEN Step(t, "i_timestamp", loc[t])
             ELSE Step(t, "a_install_failed",
                       [loc[t] EXCEPT
                           !.reason = IF r.status = "ValueError" THEN Unsupported
                                      ELSE "Failed to download artifact",
                           !.errs = Append(@, IF r.last_error = "Checksum mismatch"
                                              THEN "checksum" ELSE "download")])
    /\ UNCHANGED <<disk, procs, calls, sub>>

\* _install_release: store.record_install_timestamp(version)
InstallTimestamp(t) ==
    /\ pc[t] = "i_timestamp"
    /\ doc' = record_install_timestamp(doc, loc[t].rel.version)
    /\ Step(t, "i_mktmp", loc[t])
    /\ UNCHANGED <<dirs, tmps, curLink, prevLink, procs, calls, incoming, sub>>

\* _install_release: rmtree of an old <version>.tmp, then os.makedirs(tmp_dir)
InstallMakeTmp(t) ==
    /\ pc[t] = "i_mktmp"
    /\ tmps' = tmps \cup {loc[t].rel.version}
    /\ Step(t, "i_extract", loc[t])
    /\ UNCHANGED <<doc, dirs, curLink, prevLink, procs, calls, incoming, sub>>

\* _install_release: extract_archive into tmp_dir (extractall creates the
\* directory again when it is gone) and the non-empty check; a failure purges
\* the .tmp directory and is raised
InstallExtract(t) ==
    /\ pc[t] = "i_extract"
    /\ \E ok \in BOOLEAN :
         IF ok
         THEN /\ tmps' = tmps \cup {loc[t].rel.version}
              /\ Step(t, "i_rename", loc[t])
         ELSE /\ tmps' = tmps \ {loc[t].rel.version}
              /\ Step(t, "a_install_failed",
                      [loc[t] EXCEPT !.reason = "Extraction failed",
                                     !.errs = Append(@, "extract")])
    /\ UNCHANGED <<doc, dirs, curLink, prevLink, procs, calls, incoming, sub>>

\* _install_release: os.rename(tmp_dir, release_dir); it raises when tmp_dir is gone
InstallRename(t) ==
    /\ pc[t] = "i_rename"
    /\ IF loc[t].rel.version \in tmps
       THEN /\ dirs' = dirs \cup {loc[t].rel.version}
            /\ tmps' = tmps \ {loc[t].rel.version}
            /\ Step(t, "a_prev", loc[t])
       ELSE /\ UNCHANGED <<dirs, tmps>>
            /\ Step(t, "a_install_failed",
                    [loc[t] EXCEPT !.reason = "Rename failed",
                                   !.errs = Append(@, "rename")])
    /\ UNCHANGED <<doc, curLink, prevLink, procs, calls, incoming, sub>>

\* an install failure that also drops the process record
ApplyInstallFailed_clearpid(t) ==
    /\ pc[t] = "a_install_failed"
    /\ doc' = update_process(update_deployment_state(doc, "failed", loc[t].rel.version,
                                                     loc[t].reason),
                             NoPid, FALSE)
    /\ Return(t, Traced(loc[t], "failed"), "failed", loc[t].rel.version, TRUE)
    /\ UNCHANGED <<dirs, tmps, curLink, prevLink, procs, calls, incoming, sub>>

\* except Exception as exc: store.update_deployment_state("failed", ...); return failed
ApplyInstallFailed(t) ==
    /\ pc[t] = "a_install_failed"
    /\ doc' = update_deployment_state(doc, "failed", loc[t].rel.version, loc[t].reason)
    /\ Return(t, Traced(loc[t], "failed"), "failed", loc[t].rel.version, TRUE)
    /\ UNCHANGED <<dirs, tmps, curLink, prevLink, procs, calls, incoming, sub>>

\* previous = state.get("previous"); if current and current != release.version: ...
PreviousFor(state, release) ==
    IF state.current # None /\ state.current # release.version
    THEN state.current ELSE state.previous

\* the stop-current phase of apply_release is entered
MustStopCurrent(state, release) ==
    /\ state.current # None
    /\ state.current # release.version
    /\ _release_from_state(state, PreviousFor(state, release)) # NoRelease

\* previous is computed and the running release, if any, is stopped
ApplyPrevious(t) ==
    /\ pc[t] = "a_prev"
    /\ LET l == [loc[t] EXCEPT !.previous = PreviousFor(loc[t].state, loc[t].rel),
                               !.ctx = "apply"]
       IN  IF MustStopCurrent(loc[t].state, loc[t].rel) /\ loc[t].state.pid # NoPid
           THEN Step(t, "s_signal", l)
           ELSE Step(t, "a_activating", l)
    /\ UNCHANGED <<disk, procs, calls, incoming, sub>>

\* ---------------------------------------------------- _stop_current_process
\* _stop_current_process after `if not pid: return`: the stop command, SIGTERM and
\* SIGKILL escalation, at whose end the recorded pid is no live process
StopSignal(t) ==
    /\ pc[t] = "s_signal"
    /\ alive' = alive \ {loc[t].state.pid}
    /\ Step(t, "s_clear",
            [loc[t] EXCEPT !.killed = @ \cup ({loc[t].state.pid} \cap alive)])
    /\ UNCHANGED <<disk, nextPid, calls, incoming, sub>>

\* _stop_current_process: store.update_process(None, None)
StopClear(t) ==
    /\ pc[t] = "s_clear"
    /\ doc' = update_process(doc, NoPid, FALSE)
    /\ Step(t, IF loc[t].ctx = "remove" THEN "r_unlink" ELSE "a_activating", loc[t])
    /\ UNCHANGED <<dirs, tmps, curLink, prevLink, procs, calls, incoming, sub>>

\* -------------------------------------------------------- _activate_release
\* store.update_deployment_state("activating", target_version=release.version)
ApplyActivating(t) ==
    /\ pc[t] = "a_activating"
    /\ doc' = update_deployment_state(doc, "activating", loc[t].rel.version, None)
    /\ Step(t, "act_check", Traced(loc[t], "activating"))
    /\ UNCHANGED <<dirs, tmps, curLink, prevLink, procs, calls, incoming, sub>>

\* a rollback that activates the failed release again
ActVersion_failed(l) == l.rel.version

\* the version _activate_release is called with
ActVersion(l) == IF l.ctx = "rollback" THEN l.rbto ELSE l.rel.version

\* where the caller of _activate_release goes on
AfterActivate(l) == IF l.ctx = "rollback" THEN "rb_setcur" ELSE "a_setcur"

\* _activate_release: the release directory must exist; the current link is read.
\* The RuntimeError is caught in apply_release (state failed, outcome failed) and
\* is not caught in _rollback_to, where it leaves apply_release (the with
\* statement releases the lock)
ActivateCheck(t) ==
    /\ pc[t] = "act_check"
    /\ LET v == ActVersion(loc[t]) IN
       IF v \notin dirs
       THEN IF loc[t].ctx = "rollback"
            THEN /\ UNCHANGED doc
                 /\ Return(t, [loc[t] EXCEPT !.errs = Append(@, "activate")],
                           "raised", loc[t].rel.version, TRUE)
            ELSE /\ doc' = update_deployment_state(doc, "failed", loc[t].rel.version,
                                                   "Release directory not found")
                 /\ Return(t, Traced([loc[t] EXCEPT !.errs = Append(@, "activate")],
                                     "failed"),
                           "failed", loc[t].rel.version, TRUE)
       ELSE /\ UNCHANGED doc
            /\ IF curLink # NoLink /\ curLink # RelPath(v)
               THEN Step(t, "act_previous", loc[t])
               ELSE IF curLink = RelPath(v)
                    THEN Step(t, AfterActivate(loc[t]), loc[t])
                    ELSE Step(t, "act_current", loc[t])
    /\ UNCHANGED <<dirs, tmps, curLink, prevLink, procs, calls, incoming, sub>>

\* an activation that leaves the previous link as it is
ActivatePrevious_skip(t) ==
    /\ pc[t] = "act_previous"
    /\ prevLink' = prevLink
    /\ Step(t, "act_current", loc[t])
    /\ UNCHANGED <<doc, dirs, tmps, curLink, procs, calls, incoming, sub>>

\* _activate_release: self._atomic_symlink(current_target, previous_link)
ActivatePrevious(t) ==
    /\ pc[t] = "act_previous"
    /\ prevLink' = curLink
    /\ Step(t, "act_current", loc[t])
    /\ UNCHANGED <<doc, dirs, tmps, curLink, procs, calls, incoming, sub>>

\* the flip of the current link written to the previous link
ActivateCurrent_previous(t) ==
    /\ pc[t] = "act_current"
    /\ prevLink' = RelPath(ActVersion(loc[t]))
    /\ Step(t, AfterActivate(loc[t]), loc[t])
    /\ UNCHANGED <<doc, dirs, tmps, curLink, procs, calls, incoming, sub>>

\* _activate_release: self._atomic_symlink(f"releases/{version}", current_link)
ActivateCurrent(t) ==
    /\ pc[t] = "act_current"
    /\ curLink' = RelPath(ActVersion(loc[t]))
    /\ Step(t, AfterActivate(loc[t]), loc[t])
    /\ UNCHANGED <<doc, dirs, tmps, prevLink, procs, calls, incoming, sub>>

\* apply_release: store.set_current(release.version, previous), then
\* self._start_release(release, paths, store, previous)
ApplySetCurrent(t) ==
    /\ pc[t] = "a_setcur"
    /\ doc' = set_current(doc, loc[t].rel.version, loc[t].previous)
    /\ Step(t, "st_starting",
            [loc[t] EXCEPT !.tgt = loc[t].rel, !.prevver = loc[t].previous])
    /\ UNCHANGED <<dirs, tmps, curLink, prevLink, procs, calls, incoming, sub>>

\* ----------------------------------------------------------- _start_release
\* store.update_deployment_state("starting", release.version, None)
StartStarting(t) ==
    /\ pc[t] = "st_starting"
    /\ doc' = update_deployment_state(doc, "starting", loc[t].tgt.version, None)
    /\ Step(t, "st_spawn", Traced(loc[t], "starting"))
    /\ UNCHANGED <<dirs, tmps, curLink, prevLink, procs, calls, incoming, sub>>

\* self._executor.start(...): Popen raises when the working directory (the release
\* directory) does not exist, and else a child runs
StartSpawn(t) ==
    /\ pc[t] = "st_spawn"
    /\ IF loc[t].tgt.version \in dirs
       THEN /\ alive' = alive \cup {nextPid}
            /\ nextPid' = nextPid + 1
            /\ Step(t, "st_record",
                    [loc[t] EXCEPT !.handle = nextPid,
                                   !.starts = Append(@, <<loc[t].tgt.version, nextPid>>)])
       ELSE /\ UNCHANGED procs
            /\ Step(t, "st_failed",
                    [loc[t] EXCEPT !.reason = "Start failed",
                                   !.errs = Append(@, "spawn")])
    /\ UNCHANGED <<disk, calls, incoming, sub>>

\* store.update_process(handle.pid, _utc_now())
StartRecord(t) ==
    /\ pc[t] = "st_record"
    /\ doc' = update_process(doc, loc[t].handle, TRUE)
    /\ Step(t, "st_grace", loc[t])
    /\ UNCHANGED <<dirs, tmps, curLink, prevLink, procs, calls, incoming, sub>>

\* _wait_for_grace reports a failure: the child has exited before the deadline,
\* whatever its exit code
GraceFailed(command, pid) == command = "false" \/ pid \notin alive

\* where the caller of _start_release goes on when it returned running
AfterStart(l) ==
    CASE l.ctx = "apply" -> "a_running"
      [] l.ctx = "rollback" -> "rb_done"
      [] l.ctx = "restart" -> "rs_done"

\* failed, reason = self._wait_for_grace(handle, release)
StartGrace(t) ==
    /\ pc[t] = "st_grace"
    /\ IF GraceFailed(loc[t].tgt.start_command, loc[t].handle)
       THEN /\ alive' = alive \ {loc[t].handle}
            /\ Step(t, "st_failed",
                    [loc[t] EXCEPT !.reason = "Process exited",
                                   !.errs = Append(@, "grace")])
       ELSE /\ UNCHANGED alive
            /\ Step(t, AfterStart(loc[t]), loc[t])
    /\ UNCHANGED <<disk, nextPid, calls, incoming, sub>>

\* a start failure that also forgets the release it has activated
StartFailed_forgetcurrent(t) ==
    /\ pc[t] = "st_failed"
    /\ doc' = set_current(update_deployment_state(doc, "failed", loc[t].tgt.version,
                                                  loc[t].reason),
                          None, loc[t].prevver)
    /\ IF loc[t].prevver = None
       THEN Return(t, Traced(loc[t], "failed"), "failed",
                   IF loc[t].ctx = "rollback" THEN loc[t].rbto ELSE loc[t].tgt.version,
                   loc[t].ctx # "restart")
       ELSE Step(t, "rb_begin", Traced(loc[t], "failed"))
    /\ UNCHANGED <<dirs, tmps, curLink, prevLink, procs, calls, incoming, sub>>

\* _start_release: store.update_deployment_state("failed", release.version, reason);
\* without previous_version the failed outcome is returned, and apply_release,
\* _rollback_to and restart_current_if_needed end with it; else _rollback_to
StartFailed(t) ==
    /\ pc[t] = "st_failed"
    /\ doc' = update_deployment_state(doc, "failed", loc[t].tgt.version, loc[t].reason)
    /\ IF loc[t].prevver = None
       THEN Return(t, Traced(loc[t], "failed"), "failed",
                   IF loc[t].ctx = "rollback" THEN loc[t].rbto ELSE loc[t].tgt.version,
                   loc[t].ctx # "restart")
       ELSE Step(t, "rb_begin", Traced(loc[t], "failed"))
    /\ UNCHANGED <<dirs, tmps, curLink, prevLink, procs, calls, incoming, sub>>

\* apply_release: store.update_deployment_state("running", release.version, None)
ApplyRunning(t) ==
    /\ pc[t] = "a_running"
    /\ doc' = update_deployment_state(doc, "running", loc[t].rel.version, None)
    /\ Return(t, Traced(loc[t], "running"), "running", loc[t].rel.version, TRUE)
    /\ UNCHANGED <<dirs, tmps, curLink, prevLink, procs, calls, incoming, sub>>

\* a rollback that hands _start_release the replaced release as a further
\* rollback target
RollbackBegin_chained(t) ==
    /\ pc[t] = "rb_begin"
    /\ LET rollback_release == _release_from_state(doc, loc[t].prevver) IN
       IF rollback_release = NoRelease
       THEN /\ doc' = update_deployment_state(doc, "failed", loc[t].rel.version,
                                              loc[t].reason)
            /\ Return(t, Traced(loc[t], "failed"), "failed", loc[t].rel.version, TRUE)
       ELSE /\ doc' = update_deployment_state(doc, "rollback", loc[t].prevver,
                                              loc[t].reason)
            /\ Step(t, "act_check",
                    Traced([loc[t] EXCEPT !.ctx = "rollback", !.rbto = loc[t].prevver,
                                          !.tgt = rollback_release,
                                          !.prevver = IF loc[t].ctx = "rollback" THEN None
                                                      ELSE loc[t].rel.version],
                           "rollback"))
    /\ UNCHANGED <<dirs, tmps, curLink, prevLink, procs, calls, incoming, sub>>

\* ------------------------------------------------------------- _rollback_to
\* rollback_release = self._release_from_state(store.load(), previous_version);
\* without it the state is failed, else it is rollback
RollbackBegin(t) ==
    /\ pc[t] = "rb_begin"
    /\ LET rollback_release == _release_from_state(doc, loc[t].prevver) IN
       IF rollback_release = NoRelease
       THEN /\ doc' = update_deployment_state(doc, "failed", loc[t].rel.version,
                                              loc[t].reason)
            /\ Return(t, Traced(loc[t], "failed"), "failed", loc[t].rel.version, TRUE)
       ELSE /\ doc' = update_deployment_state(doc, "rollback", loc[t].prevver,
                                              loc[t].reason)
            /\ Step(t, "act_check",
                    Traced([loc[t] EXCEPT !.ctx = "rollback", !.rbto = loc[t].prevver,
                                          !.tgt = rollback_release, !.prevver = None],
                           "rollback"))
    /\ UNCHANGED <<dirs, tmps, curLink, prevLink, procs, calls, incoming, sub>>

\* a rollback that records the release rolled back to and leaves state.previous
RollbackSetCurrent_keepprevious(t) ==
    /\ pc[t] = "rb_setcur"
    /\ doc' = set_current(doc, loc[t].rbto, doc.previous)
    /\ Step(t, "rb_timestamp", loc[t])
    /\ UNCHANGED <<dirs, tmps, curLink, prevLink, procs, calls, incoming, sub>>

\* store.set_current(previous_version, failed_release.version)
RollbackSetCurrent(t) ==
    /\ pc[t] = "rb_setcur"
    /\ doc' = set_current(doc, loc[t].rbto, loc[t].rel.version)
    /\ Step(t, "rb_timestamp", loc[t])
    /\ UNCHANGED <<dirs, tmps, curLink, prevLink, procs, calls, incoming, sub>>

\* store.record_rollback_timestamp(previous_version), then
\* self._start_release(rollback_release, paths, store, None)
RollbackTimestamp(t) ==
    /\ pc[t] = "rb_timestamp"
    /\ doc' = record_rollback_timestamp(doc, loc[t].rbto)
    /\ Step(t, "st_starting", loc[t])
    /\ UNCHANGED <<dirs, tmps, curLink, prevLink, procs, calls, incoming, sub>>

\* _rollback_to returns rolled_back, which apply_release returns as it is
RollbackDone(t) ==
    /\ pc[t] = "rb_done"
    /\ Return(t, loc[t], "rolled_back", loc[t].rbto, TRUE)
    /\ UNCHANGED <<disk, procs, calls, incoming, sub>>

\* ----------------------------------------------------------- remove_release
\* lock = self._locks.setdefault(release.name, ...); with lock:
RemoveLock(t) ==
    /\ pc[t] = "r_lock"
    /\ lock = None
    /\ lock' = t
    /\ pc' = [pc EXCEPT ![t] = "r_load"]
    /\ UNCHANGED <<loc, ret, disk, procs, calls, incoming, sub>>

\* state = store.load(); a version that is not current goes to the directory
\* branch, the current one to _stop_current_process(state, release, ...)
RemoveLoad(t) ==
    /\ pc[t] = "r_load"
    /\ LET l == [loc[t] EXCEPT !.state = doc, !.ctx = "remove"] IN
       IF doc.current # loc[t].rel.version
       THEN Step(t, "r_other", l)
       ELSE IF doc.pid # NoPid THEN Step(t, "s_signal", l) ELSE Step(t, "r_unlink", l)
    /\ UNCHANGED <<disk, procs, calls, incoming, sub>>

\* remove_release of a version that is not current: its directory, if any, is purged
RemoveOther(t) ==
    /\ pc[t] = "r_other"
    /\ IF loc[t].rel.version \in dirs
       THEN /\ dirs' = dirs \ {loc[t].rel.version}
            /\ Return(t, loc[t], "removed", loc[t].rel.version, TRUE)
       ELSE /\ UNCHANGED dirs
            /\ Return(t, loc[t], "noop", loc[t].rel.version, TRUE)
    /\ UNCHANGED <<doc, tmps, curLink, prevLink, procs, calls, incoming, sub>>

\* self._remove_symlink(os.path.join(paths.stack_dir, "current"))
RemoveUnlink(t) ==
    /\ pc[t] = "r_unlink"
    /\ curLink' = NoLink
    /\ Step(t, "r_setcur", loc[t])
    /\ UNCHANGED <<doc, dirs, tmps, prevLink, procs, calls, incoming, sub>>

\* a remove that also forgets the previous release
RemoveSetCurrent_dropprevious(t) ==
    /\ pc[t] = "r_setcur"
    /\ doc' = set_current(doc, None, None)
    /\ Return(t, loc[t], "stopped", loc[t].rel.version, TRUE)
    /\ UNCHANGED <<dirs, tmps, curLink, prevLink, procs, calls, incoming, sub>>

\* store.set_current(None, previous); return stopped
RemoveSetCurrent(t) ==
    /\ pc[t] = "r_setcur"
    /\ doc' = set_current(doc, None, loc[t].state.previous)
    /\ Return(t, loc[t], "stopped", loc[t].rel.version, TRUE)
    /\ UNCHANGED <<dirs, tmps, curLink, prevLink, procs, calls, incoming, sub>>

\* ------------------------------------------------ restart_current_if_needed
\* a restart that does not look at the recorded pid
RestartNeeded_anypid(state) ==
    /\ state.current # None
    /\ _release_from_state(state, state.current) # NoRelease

\* the function takes no lock. Its three early returns, and else the release to start
RestartNeeded(state) ==
    /\ state.current # None
    /\ ~is_pid_running(state.pid)
    /\ _release_from_state(state, state.current) # NoRelease

\* state = store.load() and the checks of restart_current_if_needed
RestartLoad(t) ==
    /\ pc[t] = "rs_load"
    /\ IF RestartNeeded(doc)
       THEN Step(t, "st_starting",
                 [loc[t] EXCEPT !.state = doc, !.ctx = "restart", !.prevver = None,
                                !.tgt = _release_from_state(doc, doc.current)])
       ELSE Return(t, loc[t], "skipped", doc.current, FALSE)
    /\ UNCHANGED <<disk, procs, calls, incoming, sub>>

\* self._start_release(release, paths, store, None) returned running
RestartDone(t) ==
    /\ pc[t] = "rs_done"
    /\ Return(t, loc[t], "restarted", loc[t].tgt.version, FALSE)
    /\ UNCHANGED <<disk, procs, calls, incoming, sub>>

\* ------------------------------------------------ _bootstrap_existing_stacks
\* manager.cleanup_incomplete_installations(entry), which takes no lock, and then
\* manager.restart_current_if_needed(entry)
BootCleanup(t) ==
    /\ pc[t] = "b_cleanup"
    /\ tmps' = _cleanup_tmp_dirs(tmps)
    /\ Step(t, "rs_load", loc[t])
    /\ UNCHANGED <<doc, dirs, curLink, prevLink, procs, calls, incoming, sub>>

\* ------------------------------------------------------------- environment
\* a child process of the stack exits or is killed out of band
ChildDies ==
    /\ \E p \in alive : alive' = alive \ {p}
    /\ UNCHANGED <<pc, loc, ret, disk, nextPid, lock, calls, incoming, sub>>

\* the agent process dies in the middle of a call of the main thread and is
\* started again: the threads and the locks are gone, the disk and the children
\* stay, and main() runs _bootstrap_existing_stacks
Crash ==
    /\ pc[MainThread] # "idle"
    /\ calls < MaxCalls
    /\ calls' = calls + 1
    /\ pc' = [t \in Threads |-> IF t = MainThread THEN "b_cleanup" ELSE "idle"]
    /\ loc' = [t \in Threads |->
                 IF t = MainThread
                 THEN [IdleLoc EXCEPT !.op = "bootstrap", !.recovery = TRUE,
                                      !.pre = Snapshot]
                 ELSE IdleLoc]
    /\ lock' = None
    /\ UNCHANGED <<ret, disk, procs, incoming, sub>>

\* ------------------------------------------------------------ specifications
\* the steps of apply_release (with the provider's call before it) and of
\* remove_release
LockedStep(t) ==
    \/ ProviderEnsure(t)
    \/ ApplyLock(t)
    \/ ApplyEnsure(t)
    \/ ApplyLoad(t)
    \/ ApplyRecord(t)
    \/ ApplyCheck(t)
    \/ ApplyInstalling(t)
    \/ InstallDownload(t)
    \/ InstallTimestamp(t)
    \/ InstallMakeTmp(t)
    \/ InstallExtract(t)
    \/ InstallRename(t)
    \/ ApplyInstallFailed(t)
    \/ ApplyPrevious(t)
    \/ StopSignal(t)
    \/ StopClear(t)
    \/ ApplyActivating(t)
    \/ ActivateCheck(t)
    \/ ActivatePrevious(t)
    \/ ActivateCurrent(t)
    \/ ApplySetCurrent(t)
    \/ StartStarting(t)
    \/ StartSpawn(t)
    \/ StartRecord(t)
    \/ StartGrace(t)
    \/ StartFailed(t)
    \/ ApplyRunning(t)
    \/ RollbackBegin(t)
    \/ RollbackSetCurrent(t)
    \/ RollbackTimestamp(t)
    \/ RollbackDone(t)
    \/ RemoveLock(t)
    \/ RemoveLoad(t)
    \/ RemoveOther(t)
    \/ RemoveUnlink(t)
    \/ RemoveSetCurrent(t)

ThreadStep(t) ==
    \/ LockedStep(t)
    \/ RestartLoad(t)
    \/ RestartDone(t)
    \/ BootCleanup(t)

\* one thread calls the engine: the calls are sequential
Next == Call(MainThread) \/ ThreadStep(MainThread) \/ ChildDies
Spec == Init /\ [][Next]_vars

\* the transport's threads and the main thread call the engine concurrently
NextConc == (\E t \in Threads : ConcCall(t) \/ ThreadStep(t)) \/ ChildDies
SpecConc == Init /\ [][NextConc]_vars

\* sequential calls, with crashes of the agent and its restart
NextCrash == Call(MainThread) \/ ThreadStep(MainThread) \/ ChildDies \/ Crash
SpecCrash == Init /\ [][NextCrash]_vars

\* a thread invokes apply (one component) or remove_release
DeepCall(t) ==
    /\ Invoke(t, MaxDeepCalls)
    /\ loc'[t].op \in {"apply", "remove"}

\* longer runs of sequential apply_release and remove_release calls
NextDeep == DeepCall(MainThread) \/ LockedStep(MainThread) \/ ChildDies
SpecDeep == Init /\ [][NextDeep]_vars

\* a stack that earlier calls have left behind: 1.0.0 and then 1.0.1 were
\* applied and ran, remove_release(1.0.0) purged releases/1.0.0, and the child of
\* 1.0.1 has died since
PurgedPrevious ==
    /\ pc = [t \in Threads |-> "idle"]
    /\ loc = [t \in Threads |-> IdleLoc]
    /\ ret = [t \in Threads |-> NoRet]
    /\ doc = [_default_state EXCEPT
                 !.current = "1.0.1", !.previous = "1.0.0", !.state = "running",
                 !.target_version = "1.0.1", !.installed = TRUE, !.activated = TRUE,
                 !.pid = 2, !.started_at = TRUE,
                 !.releases = [v \in Versions |->
                                  IF v \in {"1.0.0", "1.0.1"}
                                  THEN [version |-> v, start_command |-> "sleep"]
                                  ELSE NoRelease]]
    /\ dirs = {"1.0.1"}
    /\ tmps = {}
    /\ curLink = RelPath("1.0.1")
    /\ prevLink = RelPath("1.0.0")
    /\ alive = {}
    /\ nextPid = 3
    /\ lock = None
    /\ calls = 0
    /\ incoming = {"1.0.0", "1.0.1"}

\* the engine is constructed over a new stack directory, or over that stack
InitFair ==
    /\ EngineInit \/ PurgedPrevious
    /\ store = NoStore
    /\ dl = NoDownload
    /\ ar = NoArchive
    /\ MoreIdle

\* a thread invokes apply (one component) or remove_release
FairCall(t) ==
    /\ Invoke(t, MaxFairCalls)
    /\ loc'[t].op \in {"apply", "remove"}

\* sequential apply_release and remove_release calls whose thread keeps running:
\* the download, the stop and the grace wait are bounded, so a step that can be
\* taken is taken
NextFair == FairCall(MainThread) \/ LockedStep(MainThread) \/ ChildDies
SpecFair == InitFair /\ [][NextFair]_vars /\ WF_vars(LockedStep(MainThread))

\* -------------------------------------------- download_with_checksum alone
\* the arguments of a call and the files at destination and destination.part
DownloadArgs ==
    [src : [1..MaxRetries -> Served], checksum : Checksums,
     retries : 0..MaxRetries, backoff : 1..MaxBackoff,
     dest : {Absent, "stale"}, part : {Absent, "partial"}]

InitDownload ==
    /\ EngineInit
    /\ store = NoStore
    /\ ar = NoArchive
    /\ MoreIdle
    /\ \E a \in DownloadArgs : dl = [phase |-> "called", args |-> a, result |-> NoDownload]

\* the call runs to its end
DownloadRun ==
    /\ dl.phase = "called"
    /\ dl' = [dl EXCEPT
                 !.phase = "done",
                 !.result = download_with_checksum(dl.args.src, dl.args.dest, dl.args.part,
                                                   dl.args.checksum, dl.args.retries,
                                                   dl.args.backoff)]
    /\ UNCHANGED <<engine, store, ar, more>>

NextDownload == DownloadRun
SpecDownload == InitDownload /\ [][NextDownload]_vars

\* --------------------------------------------------- extract_archive alone
\* the sequences of at most n members
RECURSIVE MemberSeqs(_)
MemberSeqs(n) ==
    IF n = 0 THEN {<<>>}
    ELSE LET shorter == MemberSeqs(n - 1) IN
         shorter \cup {Append(ms, member) : ms \in shorter, member \in Members}

\* the archives
Archives == [format : Formats, members : MemberSeqs(MaxMembers)]

InitExtract ==
    /\ EngineInit
    /\ store = NoStore
    /\ dl = NoDownload
    /\ MoreIdle
    /\ \E archive \in Archives, filter \in TarFilters :
          ar = [phase |-> "called", archive |-> archive, filter |-> filter,
                result |-> NoArchive]

\* the call runs to its end
ExtractRun ==
    /\ ar.phase = "called"
    /\ ar' = [ar EXCEPT !.phase = "done",
                        !.result = extract_archive(ar.archive, Destination, ar.filter)]
    /\ UNCHANGED <<engine, store, dl, more>>

NextExtract == ExtractRun
SpecExtract == InitExtract /\ [][NextExtract]_vars

\* --------------------------------------------------------- StateStore alone
InitStore ==
    /\ EngineInit
    /\ dl = NoDownload
    /\ ar = NoArchive
    /\ MoreIdle
    /\ store = [phase |-> "idle",
                files |-> [f \in {StatePath, tmp_path(StatePath)} |-> NoFile],
                old |-> DefaultDocument, state |-> DefaultDocument,
                loaded |-> DefaultDocument, recovered |-> FALSE]

\* a mutator: state = self.load(), and its change of the document
StoreMutate ==
    /\ store.phase = "idle"
    /\ Len(load(store.files)) < MaxSaves
    /\ \E mutator \in Mutators :
          store' = [store EXCEPT !.phase = "save_open",
                                 !.old = load(store.files),
                                 !.state = Append(load(store.files), mutator),
                                 !.recovered = FALSE]
    /\ UNCHANGED <<engine, dl, ar, more>>

\* save: open(tmp_path, "w") creates the file or cuts it to nothing
SaveOpen ==
    /\ store.phase = "save_open"
    /\ store' = [store EXCEPT
                    !.phase = "save_write",
                    !.files[tmp_path(StatePath)] = [doc |-> store.state, written |-> "none"]]
    /\ UNCHANGED <<engine, dl, ar, more>>

\* save: json.dump has written a part of the text
SaveWrite ==
    /\ store.phase = "save_write"
    /\ store' = [store EXCEPT !.phase = "save_close",
                              !.files[tmp_path(StatePath)].written = "some"]
    /\ UNCHANGED <<engine, dl, ar, more>>

\* save: json.dump has written the rest and the with statement closes the file
SaveClose ==
    /\ store.phase = "save_close"
    /\ store' = [store EXCEPT !.phase = "save_replace",
                              !.files[tmp_path(StatePath)].written = "all"]
    /\ UNCHANGED <<engine, dl, ar, more>>

\* save: os.replace(tmp_path, self._state_path)
SaveReplace ==
    /\ store.phase = "save_replace"
    /\ store' = [store EXCEPT
                    !.phase = "return",
                    !.files = replace(store.files, tmp_path(StatePath), StatePath)]
    /\ UNCHANGED <<engine, dl, ar, more>>

\* the mutator returns state
StoreReturn ==
    /\ store.phase = "return"
    /\ store' = [store EXCEPT !.phase = "idle"]
    /\ UNCHANGED <<engine, dl, ar, more>>

\* the agent process dies inside the mutator
StoreCrash ==
    /\ store.phase \in {"save_open", "save_write", "save_close", "save_replace", "return"}
    /\ store' = [store EXCEPT !.phase = "down"]
    /\ UNCHANGED <<engine, dl, ar, more>>

\* the agent runs again, and the first load reads the state file
StoreRecover ==
    /\ store.phase = "down"
    /\ store' = [store EXCEPT !.phase = "idle", !.loaded = load(store.files),
                              !.recovered = TRUE]
    /\ UNCHANGED <<engine, dl, ar, more>>

NextStore ==
    \/ StoreMutate
    \/ SaveOpen
    \/ SaveWrite
    \/ SaveClose
    \/ SaveReplace
    \/ StoreReturn
    \/ StoreCrash
    \/ StoreRecover
SpecStore == InitStore /\ [][NextStore]_vars

\* ------------------------------------------------- _wait_for_grace alone
\* the clock counts quarters of a second
TicksPerSecond == 4
\* time.sleep(0.5): the thread sleeps half a second, or a tick longer
SleepTicks == {2, 3}
\* the exit codes of a child
ExitCodes == {0, 1}

\* _start_release after the grace wait, without a previous version
StartOutcome(failed) == IF failed THEN "failed" ELSE "running"

\* the child has just been started: deadline = time.monotonic() + start_grace_seconds
InitGrace ==
    /\ EngineInit
    /\ store = NoStore
    /\ dl = NoDownload
    /\ ar = NoArchive
    /\ pp = NoPayload
    /\ pv = NoProvider
    /\ nu = NoUpdate
    /\ hb = NoHeartbeat
    /\ lk = NoLocks
    /\ sp = NoStop
    /\ \E seconds \in 0..MaxGrace :
          gr = [phase |-> "test", now |-> 0, deadline |-> seconds * TicksPerSecond,
                left |-> 0, exited |-> FALSE, exit_code |-> 0, exited_at |-> 0,
                failed |-> FALSE, reason |-> "", status |-> None]

\* while time.monotonic() < deadline: ... ; return False, ""
GraceTest ==
    /\ gr.phase = "test"
    /\ gr' = IF gr.now < gr.deadline
             THEN [gr EXCEPT !.phase = "poll"]
             ELSE [gr EXCEPT !.phase = "done", !.failed = FALSE, !.reason = "",
                             !.status = StartOutcome(FALSE)]
    /\ UNCHANGED <<engine, store, dl, ar, pp, pv, nu, hb, lk, sp>>

\* exit_code = handle.popen.poll(); a child that has exited is a failure whatever
\* its code, and else the thread goes to sleep
GracePoll ==
    /\ gr.phase = "poll"
    /\ IF gr.exited
       THEN gr' = [gr EXCEPT
                      !.phase = "done", !.failed = TRUE,
                      !.reason = IF gr.exit_code # 0 THEN "Process exited with code"
                                 ELSE "Process exited during grace period",
                      !.status = StartOutcome(TRUE)]
       ELSE \E ticks \in SleepTicks : gr' = [gr EXCEPT !.phase = "sleep", !.left = ticks]
    /\ UNCHANGED <<engine, store, dl, ar, pp, pv, nu, hb, lk, sp>>

\* time passes while the thread sleeps
GraceSleep ==
    /\ gr.phase = "sleep"
    /\ gr' = [gr EXCEPT !.now = @ + 1, !.left = @ - 1,
                        !.phase = IF gr.left = 1 THEN "test" ELSE "sleep"]
    /\ UNCHANGED <<engine, store, dl, ar, pp, pv, nu, hb, lk, sp>>

\* the child exits, with any code, at any moment of the wait
GraceChildExits ==
    /\ gr.phase \in {"test", "poll", "sleep"}
    /\ ~gr.exited
    /\ \E code \in ExitCodes :
          gr' = [gr EXCEPT !.exited = TRUE, !.exit_code = code, !.exited_at = gr.now]
    /\ UNCHANGED <<engine, store, dl, ar, pp, pv, nu, hb, lk, sp>>

NextGrace == GraceTest \/ GracePoll \/ GraceSleep \/ GraceChildExits
SpecGrace == InitGrace /\ [][NextGrace]_vars

\* --------------------------------------------- parse_release_payload alone
\* the two fields with four places each: name and version
Fields == {"name", "version"}
\* a string of white space
Blank == " "
\* what a place of the payload holds for the field: nothing (or a value that is
\* no string), a blank string, or a string that names the place
Values(place) == {Absent, Blank, place}

\* payload["stack"] and payload["features"]["stack"]["properties"]: no dict, or a
\* dict that may hold the field
Sections(place) ==
    {[dict |-> FALSE, value |-> Absent]}
        \cup {[dict |-> TRUE, value |-> v] : v \in Values(place)}
EmptyDict == [dict |-> TRUE, value |-> Absent]

\* the payloads: the top-level key, the stack sub-object, features.stack.properties,
\* metadata.<field>, and payload["thingId"] (name) or attributes.version (version)
Payloads ==
    [field : Fields, top : Values("top"), stack : Sections("stack"),
     properties : Sections("properties"), metadata : Values("metadata"),
     last : Values("last")]

\* _extract_stack_properties
_extract_stack_properties(payload) ==
    IF payload.properties.dict THEN payload.properties
    ELSE IF payload.stack.dict THEN payload.stack
    ELSE EmptyDict

\* str.strip
strip(value) == IF value = Blank THEN "" ELSE value

\* _first_str: the first value that is a string with something in it, or None
RECURSIVE _first_str(_)
_first_str(values) ==
    IF values = <<>> THEN Absent
    ELSE IF Head(values) # Absent /\ strip(Head(values)) # ""
         THEN Head(values)
         ELSE _first_str(Tail(values))

\* parse_release_payload, for the name or the version: the value resolved, and
\* ValueError when there is none
parse_release_payload(payload) ==
    LET stack_props == _extract_stack_properties(payload)
        value == _first_str(<<payload.top, stack_props.value, payload.metadata,
                              payload.last>>)
    IN  [raised |-> value = Absent, value |-> value]

InitPayload ==
    /\ EngineInit
    /\ store = NoStore
    /\ dl = NoDownload
    /\ ar = NoArchive
    /\ gr = NoGrace
    /\ pv = NoProvider
    /\ nu = NoUpdate
    /\ hb = NoHeartbeat
    /\ lk = NoLocks
    /\ sp = NoStop
    /\ \E payload \in Payloads :
          pp = [phase |-> "called", payload |-> payload, result |-> NoPayload]

\* the call runs to its end
PayloadParse ==
    /\ pp.phase = "called"
    /\ pp' = [pp EXCEPT !.phase = "done", !.result = parse_release_payload(pp.payload)]
    /\ UNCHANGED <<engine, store, dl, ar, gr, pv, nu, hb, lk, sp>>

NextPayload == PayloadParse
SpecPayload == InitPayload /\ [][NextPayload]_vars

\* ------------------------------------------------ components and payloads
\* component names: ComponentSpec.name may be empty
ComponentNames == {"", "a"}
\* the versions the payloads of components name
PayloadVersions == {"1.0.0", "1.0.1"}
\* the fields parse_release_payload requires, in the order it checks them
RequiredFields == <<"name", "version", "artifact uri", "checksum", "start_command">>
\* payload dicts in which one required field is not set anywhere, or is a blank
\* string
InvalidPayloads ==
    {"no name", "blank version", "no artifact uri", "blank checksum", "no start_command"}
\* the field of such a dict, and what is found for it
Defect(payload) ==
    CASE payload = "no name" -> [field |-> "name", value |-> Absent]
      [] payload = "blank version" -> [field |-> "version", value |-> Blank]
      [] payload = "no artifact uri" -> [field |-> "artifact uri", value |-> Absent]
      [] payload = "blank checksum" -> [field |-> "checksum", value |-> Blank]
      [] payload = "no start_command" -> [field |-> "start_command", value |-> Absent]
\* a payload dict: one that parse_release_payload accepts, known by its version,
\* or one that lacks a required field
PayloadDicts == PayloadVersions \cup InvalidPayloads

\* the value a payload dict holds for a required field
field_value(payload, field) ==
    IF payload \in InvalidPayloads /\ Defect(payload).field = field
    THEN Defect(payload).value
    ELSE IF field = "version" /\ payload \in PayloadVersions THEN payload
    ELSE field

\* properties["data"]: missing, a dict, a string of JSON text (plain or base64),
\* or a string that is no JSON
NoData == [form |-> "none", body |-> Absent]
Garbage == [form |-> "str", body |-> "garbage"]
DictData(payload) == [form |-> "dict", body |-> payload]
JsonData(payload) == [form |-> "str", body |-> payload]

\* json.loads(decoded_bytes.decode("utf-8")): the dict the text stands for, or
\* JSONDecodeError
json_loads(text) == IF text \in PayloadDicts THEN text ELSE Absent

\* the key under which apply and remove report and register a component
component_name(component) ==
    IF component.name = "" THEN "unnamed-component" ELSE component.name

\* self._component_registry.get(key): the payload of the entry, if there is one
registry_get(registry, key) ==
    IF key \in DOMAIN registry THEN registry[key] ELSE Absent

\* _extract_stack_payload: the payload and the error, one of which is None
_extract_stack_payload(registry, component, allow_registry_lookup) ==
    LET data == component.data IN
    IF data.form = "none" /\ allow_registry_lookup
    THEN IF registry_get(registry, component.name) # Absent
         THEN [payload |-> registry_get(registry, component.name), error |-> None]
         ELSE [payload |-> Absent, error |-> "Component stack payload not available"]
    ELSE IF data.form = "dict"
    THEN [payload |-> data.body, error |-> None]
    ELSE IF data.form = "str"
    THEN IF json_loads(data.body) # Absent
         THEN [payload |-> json_loads(data.body), error |-> None]
         ELSE [payload |-> Absent, error |-> "Failed to parse stack data"]
    ELSE [payload |-> Absent, error |-> "Unsupported payload format"]

\* parse_release_payload: if not name: raise ValueError("Release metadata missing
\* name"), and so on for the other required fields: the place in RequiredFields
\* of the first field without a string that is not blank, or 0
missing_field(payload) ==
    LET missing == {i \in 1..Len(RequiredFields) :
                       _first_str(<<field_value(payload, RequiredFields[i])>>) = Absent}
    IN  IF missing = {} THEN 0 ELSE CHOOSE i \in missing : \A j \in missing : i <= j

\* parse_release_payload(payload).version, or Absent when it raises ValueError
release_version(payload) ==
    IF payload \in PayloadDicts /\ missing_field(payload) = 0
    THEN field_value(payload, "version") ELSE Absent

\* the lists of at most n components made of `datas`, no name twice (the results
\* of a request and the registry are keyed by the component's name)
RECURSIVE ComponentLists(_, _)
ComponentLists(datas, n) ==
    IF n = 0 THEN {<<>>}
    ELSE LET shorter == ComponentLists(datas, n - 1)
             longest == {cs \in shorter : Len(cs) = n - 1}
             fresh(cs) == {name \in ComponentNames :
                              \A i \in 1..Len(cs) : cs[i].name # name}
         IN  shorter \cup
             UNION {{Append(cs, [name |-> name, data |-> data]) :
                        name \in fresh(cs), data \in datas} : cs \in longest}

\* ----------------------------------------------------- needs_update alone
\* a registry without entries
EmptyRegistry == [key \in {} |-> Absent]

\* current_by_name.get(name): the component of that name, the last one if there
\* are several; components without a name are not in the dict
InCurrent(current, name) ==
    name # "" /\ \E i \in 1..Len(current) : current[i].name = name
current_by_name(current, name) ==
    LET places == {i \in 1..Len(current) : current[i].name = name}
    IN  current[CHOOSE i \in places : \A j \in places : j <= i]

\* needs_update(metadata, pack), pack.desired and pack.current given
RECURSIVE needs_update(_, _)
needs_update(desired, current) ==
    IF desired = <<>> THEN FALSE
    ELSE LET d == Head(desired) IN
         IF d.name = "" THEN needs_update(Tail(desired), current)
         ELSE IF ~InCurrent(current, d.name) THEN TRUE
         ELSE LET desired_payload == _extract_stack_payload(EmptyRegistry, d, FALSE).payload
                  current_payload ==
                      _extract_stack_payload(EmptyRegistry,
                                             current_by_name(current, d.name),
                                             FALSE).payload
              IN  IF desired_payload = Absent \/ current_payload = Absent THEN TRUE
                  ELSE IF release_version(desired_payload) = Absent
                          \/ release_version(current_payload) = Absent THEN TRUE
                  ELSE IF release_version(desired_payload)
                             # release_version(current_payload) THEN TRUE
                  ELSE needs_update(Tail(desired), current)

\* the data of the components compared
UpdateDatas == {Garbage} \cup {DictData(payload) : payload \in PayloadDicts}

InitUpdate ==
    /\ EngineInit
    /\ store = NoStore
    /\ dl = NoDownload
    /\ ar = NoArchive
    /\ gr = NoGrace
    /\ pp = NoPayload
    /\ pv = NoProvider
    /\ hb = NoHeartbeat
    /\ lk = NoLocks
    /\ sp = NoStop
    /\ \E desired \in ComponentLists(UpdateDatas, Cardinality(ComponentNames)),
          current \in ComponentLists(UpdateDatas, Cardinality(ComponentNames)) :
          nu = [phase |-> "called", desired |-> desired, current |-> current,
                result |-> FALSE]

\* the call runs to its end
UpdateRun ==
    /\ nu.phase = "called"
    /\ nu' = [nu EXCEPT !.phase = "done", !.result = needs_update(nu.desired, nu.current)]
    /\ UNCHANGED <<engine, store, dl, ar, gr, pp, pv, hb, lk, sp>>

NextUpdate == UpdateRun
SpecUpdate == InitUpdate /\ [][NextUpdate]_vars

\* ------------------------------------------- MutoDeviceProvider apply, remove
\* what ensure_stack_ready and apply_release end with for the provider: an outcome
\* of the engine, or an exception
ApplyOutcomes == {"running", "noop", "rolled_back", "failed", "raised"}
\* and remove_release
RemoveOutcomes == {"removed", "noop", "stopped", "raised"}
EngineOutcomes(op) == IF op = "apply" THEN ApplyOutcomes ELSE RemoveOutcomes

\* the data of the components of a request
ProviderDatas ==
    {NoData, Garbage} \cup {DictData(payload) : payload \in InvalidPayloads}
        \cup {JsonData(payload) : payload \in PayloadVersions}

\* self._component_registry[key] = {..., "payload": payload, ...}
registry_set(registry, key, payload) ==
    [k \in DOMAIN registry \cup {key} |-> IF k = key THEN payload ELSE registry[k]]
\* self._component_registry.pop(key, None)
registry_pop(registry, key) == [k \in DOMAIN registry \ {key} |-> registry[k]]

\* a mapping that takes a rollback for a success
ApplyState_lenient(status) ==
    IF status \in {"running", "noop", "rolled_back"} THEN "UPDATED" ELSE "UPDATE_FAILED"

\* apply: the component state for an outcome of the engine
ApplyState(status) ==
    IF status \in {"running", "noop"} THEN "UPDATED" ELSE "UPDATE_FAILED"

\* remove: the component state for an outcome of the engine
RemoveState(status) ==
    IF status \in {"removed", "rolled_back", "stopped", "noop"}
    THEN "DELETED" ELSE "DELETE_FAILED"

\* ComponentResultSpec of one component, with what led to it: the error of the
\* decoding, "parse" for an exception of parse_release_payload, or the outcome of
\* the engine for the payload
ComponentResult(key, state, cause, payload) ==
    [key |-> key, state |-> state, cause |-> cause, payload |-> payload]

\* a pass of the loop that registers the payload of a component it could not parse
apply_component_register(acc, component, outcome) ==
    LET key == component_name(component)
        extracted == _extract_stack_payload(acc.registry, component, FALSE)
        failed(cause) ==
            [acc EXCEPT !.failures = @ + 1,
                        !.results = Append(@, ComponentResult(key, "UPDATE_FAILED",
                                                              cause, extracted.payload))]
    IN  IF extracted.error # None THEN failed(extracted.error)
        ELSE IF release_version(extracted.payload) = Absent
        THEN [failed("parse") EXCEPT
                 !.registry = registry_set(acc.registry, key, extracted.payload)]
        ELSE IF outcome = "raised" THEN failed("raised")
        ELSE [registry |-> registry_set(acc.registry, key, extracted.payload),
              failures |-> IF ApplyState(outcome) = "UPDATED"
                           THEN acc.failures ELSE acc.failures + 1,
              results |-> Append(acc.results,
                                 ComponentResult(key, ApplyState(outcome), outcome,
                                                 extracted.payload))]

\* one pass of the loop of apply over a component; acc holds the registry, the
\* component results and the failures so far
apply_component(acc, component, outcome) ==
    LET key == component_name(component)
        extracted == _extract_stack_payload(acc.registry, component, FALSE)
        failed(cause) ==
            [acc EXCEPT !.failures = @ + 1,
                        !.results = Append(@, ComponentResult(key, "UPDATE_FAILED",
                                                              cause, extracted.payload))]
    IN  IF extracted.error # None THEN failed(extracted.error)
        ELSE IF release_version(extracted.payload) = Absent THEN failed("parse")
        ELSE IF outcome = "raised" THEN failed("raised")
        ELSE [registry |-> registry_set(acc.registry, key, extracted.payload),
              failures |-> IF ApplyState(outcome) = "UPDATED"
                           THEN acc.failures ELSE acc.failures + 1,
              results |-> Append(acc.results,
                                 ComponentResult(key, ApplyState(outcome), outcome,
                                                 extracted.payload))]

\* one pass of the loop of remove
remove_component(acc, component, outcome) ==
    LET key == component_name(component)
        extracted == _extract_stack_payload(acc.registry, component, TRUE)
        failed(cause) ==
            [acc EXCEPT !.failures = @ + 1,
                        !.results = Append(@, ComponentResult(key, "DELETE_FAILED",
                                                              cause, extracted.payload))]
    IN  IF extracted.error # None THEN failed(extracted.error)
        ELSE IF release_version(extracted.payload) = Absent THEN failed("parse")
        ELSE IF outcome = "raised" THEN failed("raised")
        ELSE [registry |-> registry_pop(acc.registry, key),
              failures |-> IF RemoveState(outcome) = "DELETED"
                           THEN acc.failures ELSE acc.failures + 1,
              results |-> Append(acc.results,
                                 ComponentResult(key, RemoveState(outcome), outcome,
                                                 extracted.payload))]

\* for component in components: ...
RECURSIVE component_loop(_, _, _, _)
component_loop(op, acc, components, outcomes) ==
    IF components = <<>> THEN acc
    ELSE component_loop(op,
                        IF op = "apply"
                        THEN apply_component(acc, Head(components), Head(outcomes))
                        ELSE remove_component(acc, Head(components), Head(outcomes)),
                        Tail(components), Tail(outcomes))

\* target_result.message, result.summary_message: unset, or the count and the phase
NoMessage == [count |-> 0, text |-> ""]
SummaryMessage(op, failures) ==
    IF failures = 0 THEN NoMessage
    ELSE [count |-> failures,
          text |-> IF op = "apply" THEN "component(s) failed during apply"
                   ELSE "component(s) failed during removal"]

\* a provider at rest, with its registry
ProviderIdle(registry) ==
    [phase |-> "idle", registry |-> registry, op |-> None, components |-> <<>>,
     pre |-> EmptyRegistry, results |-> <<>>, failures |-> 0, status |-> None,
     message |-> NoMessage]

\* MutoDeviceProvider.__init__: self._component_registry = {}
InitProvider ==
    /\ EngineInit
    /\ store = NoStore
    /\ dl = NoDownload
    /\ ar = NoArchive
    /\ gr = NoGrace
    /\ pp = NoPayload
    /\ nu = NoUpdate
    /\ hb = NoHeartbeat
    /\ lk = NoLocks
    /\ sp = NoStop
    /\ pv = ProviderIdle(EmptyRegistry)

\* the broker hands an apply or a remove request to the provider
ProviderRequest ==
    /\ pv.phase = "idle"
    /\ \E op \in {"apply", "remove"},
          components \in ComponentLists(ProviderDatas, Cardinality(ComponentNames)) :
          pv' = [pv EXCEPT !.phase = "called", !.op = op, !.components = components,
                           !.pre = pv.registry]
    /\ UNCHANGED <<engine, store, dl, ar, gr, pp, nu, hb, lk, sp>>

\* apply or remove runs over the components, the engine ending each of its calls
\* in one of its outcomes; target_result.status and the message are set
ProviderRun ==
    /\ pv.phase = "called"
    /\ \E outcomes \in [1..Len(pv.components) -> EngineOutcomes(pv.op)] :
          LET acc == component_loop(pv.op,
                                    [registry |-> pv.registry, failures |-> 0,
                                     results |-> <<>>],
                                    pv.components, outcomes)
          IN  pv' = [pv EXCEPT !.phase = "done",
                               !.registry = acc.registry,
                               !.results = acc.results,
                               !.failures = acc.failures,
                               !.status = IF acc.failures = 0 THEN "OK" ELSE "FAILED",
                               !.message = SummaryMessage(pv.op, acc.failures)]
    /\ UNCHANGED <<engine, store, dl, ar, gr, pp, nu, hb, lk, sp>>

\* the summary is returned to the broker
ProviderReturn ==
    /\ pv.phase = "done"
    /\ pv' = ProviderIdle(pv.registry)
    /\ UNCHANGED <<engine, store, dl, ar, gr, pp, nu, hb, lk, sp>>

NextProvider == ProviderRequest \/ ProviderRun \/ ProviderReturn
SpecProvider == InitProvider /\ [][NextProvider]_vars

\* -------------------------------------------------------- HeartbeatManager
\* self._thread when it is None
NoThread == 0
\* the threads that start() can create
Workers == 1..MaxWorkers
\* how a tick ends: well, or with an exception of the status collection, of the
\* callback, of the status updater or of anything else in the tick
TickOutcomes == {"ok", "collect_raises", "callback_raises", "updater_raises", "raises"}

\* threading.Thread.is_alive
is_alive(workers, thread) == workers[thread] \in {"check", "tick", "wait"}

\* HeartbeatManager.__init__: no thread, the event not set; nothing is being called
InitBeat ==
    /\ EngineInit
    /\ store = NoStore
    /\ dl = NoDownload
    /\ ar = NoArchive
    /\ gr = NoGrace
    /\ pp = NoPayload
    /\ pv = NoProvider
    /\ nu = NoUpdate
    /\ lk = NoLocks
    /\ sp = NoStop
    /\ \E enabled \in BOOLEAN :
          hb = [phase |-> "live", enabled |-> enabled, thread |-> NoThread,
                event |-> FALSE, caller |-> "idle",
                worker |-> [w \in Workers |-> "unborn"],
                signalled |-> {}, last |-> None]

\* start() is called (while the model has a thread left to create): it returns at
\* once when the heartbeat is disabled, and when self._thread is a live thread
BeatStart ==
    /\ hb.caller = "idle"
    /\ \E w \in Workers : hb.worker[w] = "unborn"
    /\ hb' = IF ~hb.enabled THEN hb
             ELSE IF hb.thread # NoThread /\ is_alive(hb.worker, hb.thread) THEN hb
             ELSE [hb EXCEPT !.caller = "start_clear"]
    /\ hb' # hb
    /\ UNCHANGED <<engine, store, dl, ar, gr, pp, pv, nu, lk, sp>>

\* start(): self._shutdown_event.clear()
BeatStartClear ==
    /\ hb.caller = "start_clear"
    /\ hb' = [hb EXCEPT !.event = FALSE, !.caller = "start_thread"]
    /\ UNCHANGED <<engine, store, dl, ar, gr, pp, pv, nu, lk, sp>>

\* start(): self._thread = threading.Thread(...); self._thread.start()
BeatStartThread ==
    /\ hb.caller = "start_thread"
    /\ \E w \in Workers :
          /\ hb.worker[w] = "unborn"
          /\ \A earlier \in Workers : earlier < w => hb.worker[earlier] # "unborn"
          /\ hb' = [hb EXCEPT !.thread = w, !.worker[w] = "check", !.caller = "idle"]
    /\ UNCHANGED <<engine, store, dl, ar, gr, pp, pv, nu, lk, sp>>

\* stop(): self._shutdown_event.set()
BeatStop ==
    /\ hb.caller = "idle"
    /\ hb' = [hb EXCEPT
                 !.event = TRUE,
                 !.signalled = @ \cup {w \in Workers : is_alive(hb.worker, w)},
                 !.caller = IF hb.thread # NoThread THEN "stop_join" ELSE "idle"]
    /\ hb' # hb
    /\ UNCHANGED <<engine, store, dl, ar, gr, pp, pv, nu, lk, sp>>

\* stop(): self._thread.join(timeout=5.0) returns since the thread has ended;
\* self._thread = None
BeatJoined ==
    /\ hb.caller = "stop_join"
    /\ ~is_alive(hb.worker, hb.thread)
    /\ hb' = [hb EXCEPT !.thread = NoThread, !.caller = "idle"]
    /\ UNCHANGED <<engine, store, dl, ar, gr, pp, pv, nu, lk, sp>>

\* stop(): the join gives up after its five seconds since the thread is in a tick
\* that takes longer; self._thread = None
BeatJoinTimeout ==
    /\ hb.caller = "stop_join"
    /\ hb.worker[hb.thread] = "tick"
    /\ hb' = [hb EXCEPT !.thread = NoThread, !.caller = "idle"]
    /\ UNCHANGED <<engine, store, dl, ar, gr, pp, pv, nu, lk, sp>>

\* _heartbeat_loop: while not self._shutdown_event.is_set()
BeatCheck(w) ==
    /\ hb.worker[w] = "check"
    /\ hb' = [hb EXCEPT !.worker[w] = IF hb.event THEN "exited" ELSE "tick"]
    /\ UNCHANGED <<engine, store, dl, ar, gr, pp, pv, nu, lk, sp>>

\* _heartbeat_loop: the tick, whose exceptions are logged; the thread goes on to
\* self._shutdown_event.wait(timeout=interval_seconds)
BeatTick(w) ==
    /\ hb.worker[w] = "tick"
    /\ \E outcome \in TickOutcomes :
          hb' = [hb EXCEPT !.worker[w] = "wait", !.last = outcome]
    /\ UNCHANGED <<engine, store, dl, ar, gr, pp, pv, nu, lk, sp>>

\* the wait ends, at once when the event is set and else after the interval
BeatWait(w) ==
    /\ hb.worker[w] = "wait"
    /\ hb' = [hb EXCEPT !.worker[w] = "check"]
    /\ UNCHANGED <<engine, store, dl, ar, gr, pp, pv, nu, lk, sp>>

\* the steps inside a call of start() or stop()
BeatCaller == BeatStartClear \/ BeatStartThread \/ BeatJoined \/ BeatJoinTimeout
\* the steps of a worker thread
BeatWorker(w) == BeatCheck(w) \/ BeatTick(w) \/ BeatWait(w)

NextBeat == BeatStart \/ BeatStop \/ BeatCaller \/ \E w \in Workers : BeatWorker(w)
SpecBeat == InitBeat /\ [][NextBeat]_vars
\* the scheduler lets every thread run: a call of start() or stop() that has begun
\* goes on, and so does each worker
SpecBeatFair ==
    /\ SpecBeat
    /\ WF_vars(BeatCaller)
    /\ \A w \in Workers : WF_vars(BeatWorker(w))

\* ------------------------------------------------- the locks of two stacks
\* release.name of the releases that the threads apply and remove
StackNames == {"A", "B"}

\* one lock for all stacks
LockKey_global(name) == "stacks"

\* self._locks.setdefault(release.name, threading.Lock()): the key of the lock
LockKey(name) == name

\* the holder of the lock of that key, None when it is free or not yet created
Holder(locks, key) == IF key \in DOMAIN locks THEN locks[key] ELSE None

\* a thread outside apply_release and remove_release
LkIdle == [pc |-> "idle", op |-> None, stack |-> None, stalled |-> FALSE]

\* DeploymentManager.__init__: self._locks = {}
InitLocks ==
    /\ EngineInit
    /\ store = NoStore
    /\ dl = NoDownload
    /\ ar = NoArchive
    /\ gr = NoGrace
    /\ pp = NoPayload
    /\ pv = NoProvider
    /\ nu = NoUpdate
    /\ hb = NoHeartbeat
    /\ sp = NoStop
    /\ lk = [phase |-> "live", locks |-> [key \in {} |-> None],
             thr |-> [t \in Threads |-> LkIdle]]

\* a thread calls apply_release or remove_release for a release of some stack
LkCall(t) ==
    /\ lk.thr[t].pc = "idle"
    /\ \E op \in {"apply", "remove"}, name \in StackNames :
          lk' = [lk EXCEPT !.thr[t] = [pc |-> "lock", op |-> op, stack |-> name,
                                       stalled |-> FALSE]]
    /\ UNCHANGED <<engine, store, dl, ar, gr, pp, pv, nu, hb, sp>>

\* lock = self._locks.setdefault(release.name, threading.Lock()); with lock: the
\* thread goes in when the lock is free
LkAcquire(t) ==
    /\ lk.thr[t].pc = "lock"
    /\ LET key == LockKey(lk.thr[t].stack) IN
       /\ Holder(lk.locks, key) = None
       /\ lk' = [lk EXCEPT
                    !.locks = [k \in DOMAIN lk.locks \cup {key} |->
                                  IF k = key THEN t ELSE lk.locks[k]],
                    !.thr[t].pc = "body"]
    /\ UNCHANGED <<engine, store, dl, ar, gr, pp, pv, nu, hb, sp>>

\* inside the lock the thread hangs for as long as one cares to look: a download
\* that does not end, a child that does not stop
LkStall(t) ==
    /\ lk.thr[t].pc = "body"
    /\ ~lk.thr[t].stalled
    /\ lk' = [lk EXCEPT !.thr[t].stalled = TRUE]
    /\ UNCHANGED <<engine, store, dl, ar, gr, pp, pv, nu, hb, sp>>

\* the body of the with statement ends and the lock is released
LkFinish(t) ==
    /\ lk.thr[t].pc = "body"
    /\ ~lk.thr[t].stalled
    /\ lk' = [lk EXCEPT !.locks[LockKey(lk.thr[t].stack)] = None,
                        !.thr[t].pc = "done"]
    /\ UNCHANGED <<engine, store, dl, ar, gr, pp, pv, nu, hb, sp>>

\* the outcome is returned to the caller
LkReturn(t) ==
    /\ lk.thr[t].pc = "done"
    /\ lk' = [lk EXCEPT !.thr[t] = LkIdle]
    /\ UNCHANGED <<engine, store, dl, ar, gr, pp, pv, nu, hb, sp>>

\* the steps of a thread that the scheduler lets it take as soon as it can
LkStep(t) == LkAcquire(t) \/ LkFinish(t) \/ LkReturn(t)

NextLocks == \E t \in Threads : LkCall(t) \/ LkStep(t) \/ LkStall(t)
\* every thread that can run does run
SpecLocks ==
    /\ InitLocks
    /\ [][NextLocks]_vars
    /\ \A t \in Threads : WF_vars(LkStep(t))

\* --------------------------------------------- _stop_current_process alone
\* what os.kill(pid, ...) finds: no process (ProcessLookupError), a process the
\* agent may signal, or a process of another user (PermissionError)
PidStates == {"gone", "own", "foreign"}
\* runtime.stop_command: none, or what subprocess.run(stop_command, timeout=...)
\* does: it returns (check=False: whatever the exit code), raises OSError, or
\* raises TimeoutExpired
StopCommands == {None, "returns", "oserror", "timeout"}

\* _DummyProcess.poll and CommandExecutor.is_pid_running: os.kill(pid, 0) raises
\* ProcessLookupError for no process; PermissionError counts as running
pid_running(proc) == proc # "gone"

\* the call begins: process.pid of the loaded state, the process behind it and
\* the stop command of the release
InitStop ==
    /\ EngineInit
    /\ store = NoStore
    /\ dl = NoDownload
    /\ ar = NoArchive
    /\ gr = NoGrace
    /\ pp = NoPayload
    /\ pv = NoProvider
    /\ nu = NoUpdate
    /\ hb = NoHeartbeat
    /\ lk = NoLocks
    /\ \E pid \in {NoPid, 1}, proc \in PidStates, command \in StopCommands :
          sp = [phase |-> "called", pid |-> pid, proc |-> proc, stop_command |-> command,
                state |-> update_process(_default_state, pid, pid # NoPid),
                log |-> <<>>, clock |-> 0, outcome |-> None]

\* the stop routine goes on at `phase`
StopGoto(phase) == sp' = [sp EXCEPT !.phase = phase, !.clock = 0]
\* an exception leaves _stop_current_process, and with it the enclosing call
StopRaise == sp' = [sp EXCEPT !.phase = "done", !.outcome = "raised"]
\* a signal reaches the process: the log keeps it with the time waited before it
Delivered(sig) == Append(sp.log, [sig |-> sig, waited |-> sp.clock])

\* pid = process_data.get("pid"); if not pid: return
StopProcBegin ==
    /\ sp.phase = "called"
    /\ IF sp.pid = NoPid
       THEN sp' = [sp EXCEPT !.phase = "done", !.outcome = "returned"]
       ELSE IF sp.stop_command # None THEN StopGoto("command") ELSE StopGoto("check")
    /\ UNCHANGED <<engine, store, dl, ar, gr, pp, pv, nu, hb, lk>>

\* CommandExecutor.stop: subprocess.run(stop_command, ..., timeout=timeout_seconds,
\* check=False)
StopProcCommand ==
    /\ sp.phase = "command"
    /\ sp' = [sp EXCEPT !.phase = IF sp.stop_command = "returns" THEN "ex_poll"
                                  ELSE "handler",
                        !.log = Append(@, [sig |-> "command", waited |-> 0])]
    /\ UNCHANGED <<engine, store, dl, ar, gr, pp, pv, nu, hb, lk>>

\* CommandExecutor.stop: if handle.popen.poll() is None: handle.popen.terminate();
\* _DummyProcess.terminate is os.kill(pid, SIGTERM), which raises for no process
\* and for a process of another user
StopProcExecTerminate ==
    /\ sp.phase = "ex_poll"
    /\ IF ~pid_running(sp.proc)
       THEN StopGoto("check")
       ELSE IF sp.proc = "own"
            THEN sp' = [sp EXCEPT !.phase = "ex_wait", !.clock = 0,
                                  !.log = Delivered("SIGTERM")]
            ELSE StopGoto("handler")
    /\ UNCHANGED <<engine, store, dl, ar, gr, pp, pv, nu, hb, lk>>

\* handle.popen.wait(timeout=timeout_seconds): _DummyProcess.wait polls the pid
\* until the deadline and then raises TimeoutExpired; handle.popen.kill() and the
\* second wait follow
StopProcExecWait ==
    /\ sp.phase = "ex_wait"
    /\ IF ~pid_running(sp.proc)
       THEN StopGoto("check")
       ELSE IF sp.clock < MaxStopPolls
            THEN sp' = [sp EXCEPT !.clock = @ + 1]
            ELSE sp' = [sp EXCEPT !.phase = "check", !.proc = "gone",
                                  !.log = Delivered("SIGKILL")]
    /\ UNCHANGED <<engine, store, dl, ar, gr, pp, pv, nu, hb, lk>>

\* except Exception: self._executor.terminate_pid(pid): os.kill(pid, SIGTERM),
\* where ProcessLookupError is caught and PermissionError is not
StopProcHandler ==
    /\ sp.phase = "handler"
    /\ CASE sp.proc = "gone" -> StopGoto("check")
         [] sp.proc = "own" -> sp' = [sp EXCEPT !.phase = "check", !.clock = 0,
                                                !.log = Delivered("SIGTERM")]
         [] sp.proc = "foreign" -> StopRaise
    /\ UNCHANGED <<engine, store, dl, ar, gr, pp, pv, nu, hb, lk>>

\* if self._executor.is_pid_running(pid): with suppress(ProcessLookupError):
\* os.kill(pid, signal.SIGTERM)
StopProcTerminate ==
    /\ sp.phase = "check"
    /\ CASE sp.proc = "gone" -> StopGoto("clear")
         [] sp.proc = "own" -> sp' = [sp EXCEPT !.phase = "poll", !.clock = 0,
                                                !.log = Delivered("SIGTERM")]
         [] sp.proc = "foreign" -> StopRaise
    /\ UNCHANGED <<engine, store, dl, ar, gr, pp, pv, nu, hb, lk>>

\* while time.monotonic() < deadline: if not is_pid_running(pid): break;
\* time.sleep(0.1); then if is_pid_running(pid): os.kill(pid, signal.SIGKILL)
StopProcPoll ==
    /\ sp.phase = "poll"
    /\ IF sp.clock < MaxStopPolls /\ pid_running(sp.proc)
       THEN sp' = [sp EXCEPT !.clock = @ + 1]
       ELSE IF pid_running(sp.proc)
            THEN sp' = [sp EXCEPT !.phase = "clear", !.proc = "gone",
                                  !.log = Delivered("SIGKILL")]
            ELSE StopGoto("clear")
    /\ UNCHANGED <<engine, store, dl, ar, gr, pp, pv, nu, hb, lk>>

\* store.update_process(None, None)
StopProcClear ==
    /\ sp.phase = "clear"
    /\ sp' = [sp EXCEPT !.phase = "done", !.outcome = "returned",
                        !.state = update_process(@, NoPid, FALSE)]
    /\ UNCHANGED <<engine, store, dl, ar, gr, pp, pv, nu, hb, lk>>

\* the process exits while the routine runs: by itself, through its stop command
\* or on a SIGTERM
StopProcExits ==
    /\ sp.phase \notin {None, "called", "done"}
    /\ sp.proc = "own"
    /\ sp' = [sp EXCEPT !.proc = "gone"]
    /\ UNCHANGED <<engine, store, dl, ar, gr, pp, pv, nu, hb, lk>>

NextStop ==
    \/ StopProcBegin
    \/ StopProcCommand
    \/ StopProcExecTerminate
    \/ StopProcExecWait
    \/ StopProcHandler
    \/ StopProcTerminate
    \/ StopProcPoll
    \/ StopProcClear
    \/ StopProcExits
SpecStop == InitStop /\ [][NextStop]_vars

\* ------------------------------------------------------------------ claims
\* the last completed call of thread t was `op`
Completed(t, op) == pc[t] = "idle" /\ ret[t].op = op

\* the stack had no prior state when the call began
Fresh(pre) ==
    /\ pre.doc = _default_state
    /\ pre.dirs = {}
    /\ pre.curLink = NoLink
    /\ pre.prevLink = NoLink

\* C1: an apply_release(r) that finds current = r.version and the recorded pid
\* alive returns noop, and a noop apply changes nothing but releases[r.version]:
\* the document is the old one with r upserted, the release directories and both
\* symlinks are as before, and the call started and stopped no process. (The pid
\* is alive for the call when it is still alive after it.)
C1_NoopIdempotent ==
    \A t \in Threads :
        Completed(t, "apply") =>
            LET r == ret[t] IN
            /\ (r.pre.doc.current = r.rel.version /\ is_pid_running(r.pre.doc.pid))
                   => r.status = "noop"
            /\ r.status = "noop" =>
                   /\ r.pre.doc.current = r.rel.version
                   /\ doc = record_release(r.pre.doc, r.rel)
                   /\ dirs = r.pre.dirs
                   /\ curLink = r.pre.curLink
                   /\ prevLink = r.pre.prevLink
                   /\ r.starts = <<>>
                   /\ r.killed = {}
                   /\ r.trace = <<>>

\* C1 witness: a second apply of a running version, with another payload than the
\* recorded one, has returned noop while the first child is alive
C1_Witness ==
    \E t \in Threads :
        /\ Completed(t, "apply")
        /\ ret[t].status = "noop"
        /\ ret[t].pre.doc.state = "running"
        /\ ret[t].pre.doc.releases[ret[t].rel.version] # ret[t].rel
        /\ is_pid_running(doc.pid)

\* C2: an apply_release on a stack with no prior state in which nothing fails
\* returns running; it writes deployment.state installing, activating, starting,
\* running in that order and nothing else; afterwards current = r.version, the
\* current symlink targets releases/<version>, deployment.state = running and
\* process.pid is the pid of the one child the call started (which outlived the
\* grace window)
C2_HappyPath ==
    \A t \in Threads :
        (Completed(t, "apply") /\ Fresh(ret[t].pre) /\ ret[t].errs = <<>>) =>
            LET r == ret[t] IN
            /\ r.status = "running"
            /\ r.version = r.rel.version
            /\ r.trace = <<"installing", "activating", "starting", "running">>
            /\ doc.current = r.rel.version
            /\ curLink = RelPath(r.rel.version)
            /\ doc.state = "running"
            /\ r.starts = <<<<r.rel.version, doc.pid>>>>
            /\ doc.pid # NoPid
            /\ r.killed = {}

\* C2 witness: the first apply on an empty stack has returned running and its
\* child is alive
C2_Witness ==
    \E t \in Threads :
        /\ Completed(t, "apply")
        /\ Fresh(ret[t].pre)
        /\ ret[t].status = "running"
        /\ is_pid_running(doc.pid)

\* the call of r applied a version other than the current one, whose process was
\* running, and its only failure was that the target's child left in the grace
\* window (so the restarted previous release stayed up)
RolledBackCase(r) ==
    /\ r.pre.doc.current # None
    /\ r.pre.doc.current # r.rel.version
    /\ r.pre.doc.pid # NoPid
    /\ r.pre.doc.pid \in r.pre.alive
    /\ r.errs = <<"grace">>
    /\ Len(r.starts) = 2

C4_RolledBackStateRunning ==
    \A t \in Threads :
        (Completed(t, "apply") /\ ret[t].status = "rolled_back"
                               /\ ret[t].errs = <<"grace">>) =>
            /\ doc.state = "running"
            /\ doc.rolled_back

\* C5 (the claim as stated): restart_current_if_needed, called with current set
\* and the recorded pid dead, whose child outlives the grace window, records a
\* new pid, leaves deployment.state = running and changes neither current nor
\* previous
C5_RestartLeavesRunning ==
    \A t \in Threads :
        (Completed(t, "restart") /\ ret[t].status = "restarted") =>
            LET r == ret[t] IN
            /\ r.starts = <<<<doc.current, doc.pid>>>>
            /\ doc.pid # r.pre.doc.pid
            /\ doc.state = "running"
            /\ doc.current = r.pre.doc.current
            /\ doc.previous = r.pre.doc.previous

\* C6 (the claim as stated): in every state at most one child process of the
\* stack is alive, and when no call is in progress a recorded pid is the pid of
\* that child
C6_AtMostOneChild ==
    /\ Cardinality(alive) <= 1
    /\ ((\A t \in Threads : pc[t] = "idle") /\ alive # {} /\ doc.pid # NoPid)
           => alive = {doc.pid}

\* thread t is inside the body of apply_release, remove_release or
\* restart_current_if_needed, where it reads and writes the stack
InBody(t) == pc[t] \notin {"idle", "p_ensure", "a_lock", "r_lock", "b_cleanup"}

\* C7 (the claim as stated): a thread inside apply_release, remove_release or
\* restart_current_if_needed holds the stack's mutex, so no two of them overlap
C7_OperationsHoldLock ==
    \A t \in Threads : InBody(t) => lock = t

\* C8 (the claim as stated): while an apply_release is extracting into
\* releases/<version>.tmp, that directory is there: no other thread deletes it
C8_TmpDirGuarded ==
    \A t \in Threads :
        pc[t] \in {"i_extract", "i_rename"} => loc[t].rel.version \in tmps

\* I1: current and previous, when set, are keys of releases
I1 ==
    /\ doc.current # None => _release_from_state(doc, doc.current) # NoRelease
    /\ doc.previous # None => _release_from_state(doc, doc.previous) # NoRelease
\* I2: the release directory of current exists and the current symlink targets it
I2 == doc.current # None => (doc.current \in dirs /\ curLink = RelPath(doc.current))
\* I3: at most one live process of the stack
I3 == Cardinality(alive) <= 1
\* I5: no releases/<version>.tmp directory
I5 == tmps = {}

\* C9 (the claim as stated): after a crash in an apply_release, once the agent has
\* started again and run bootstrap, the stack satisfies I1, I2, I3 and I5 (I4, a
\* document that is never partial, is how save is modelled here)
C9_RecoveryRestoresInvariants ==
    \A t \in Threads :
        (Completed(t, "bootstrap") /\ ret[t].recovery) => (I1 /\ I2 /\ I3 /\ I5)

\* C10: when no call is in progress, current and previous, when set, are keys of
\* releases
C10_CurrentPreviousRecorded ==
    (\A t \in Threads : pc[t] = "idle") => I1

\* C10 witness: an apply has rolled back, and current and previous are both set
C10_Witness ==
    \E t \in Threads :
        /\ Completed(t, "apply")
        /\ ret[t].status = "rolled_back"
        /\ doc.current # None
        /\ doc.previous # None
        /\ doc.previous # doc.current

\* C11: after every completed apply_release, remove_release or
\* restart_current_if_needed of sequential calls without a crash, if current = v
\* then the directory releases/v exists and the current symlink targets releases/v
C11_CurrentReleaseInPlace ==
    \A t \in Threads :
        (Completed(t, "apply") \/ Completed(t, "remove") \/ Completed(t, "restart"))
            => I2

\* C11 witness: an apply has rolled back to the previous release, whose directory
\* and link are in place, and a remove_release has purged another directory
C11_Witness ==
    \E t \in Threads :
        /\ Completed(t, "remove")
        /\ ret[t].status = "removed"
        /\ doc.current # None
        /\ doc.current \in dirs
        /\ curLink = RelPath(doc.current)
        /\ doc.rolled_back

\* C13: after an apply_release that has returned (noop, running, rolled_back or
\* failed), and after bootstrap, there is no directory releases/<version>.tmp
C13_NoTmpDirAfterApply ==
    \A t \in Threads :
        (Completed(t, "apply") \/ Completed(t, "bootstrap")) => tmps = {}

\* C13 witness: the agent crashed while a .tmp directory was there, and the
\* bootstrap after the restart has ended without one
C13_Witness ==
    \E t \in Threads :
        /\ Completed(t, "bootstrap")
        /\ ret[t].recovery
        /\ ret[t].pre.tmps # {}
        /\ tmps = {}

\* C15 (the claim as stated): after an apply_release that returned running, the
\* persisted deployment.last_failure is null
C15_RunningClearsLastFailure ==
    \A t \in Threads :
        (Completed(t, "apply") /\ ret[t].status = "running") => doc.last_failure = None

\* the error texts of a failure of the install phase
InstallFailureTexts(err) ==
    CASE err = "download" -> {"Failed to download artifact", Unsupported}
      [] err = "checksum" -> {"Failed to download artifact"}
      [] err = "extract" -> {"Extraction failed"}
      [] OTHER -> {}

\* C16: an apply_release whose download, checksum verification or extraction
\* (archive safety check, extraction, non-empty check) fails returns failed; the
\* persisted deployment.state is failed, last_failure is the error text,
\* target_version is the version of the request, and neither releases/<version>
\* nor releases/<version>.tmp exists
C16_InstallFailure ==
    \A t \in Threads :
        (/\ Completed(t, "apply")
         /\ ret[t].errs # <<>>
         /\ ret[t].errs[1] \in {"download", "checksum", "extract"}) =>
            LET r == ret[t] IN
            /\ r.status = "failed"
            /\ r.version = r.rel.version
            /\ doc.state = "failed"
            /\ doc.last_failure \in InstallFailureTexts(r.errs[1])
            /\ doc.last_failure_at
            /\ doc.target_version = r.rel.version
            /\ r.rel.version \notin dirs
            /\ r.rel.version \notin tmps
            /\ r.starts = <<>>

\* C16 witness: while another version runs, the extraction of a new one has
\* failed, and the running version is untouched
C16_Witness ==
    \E t \in Threads :
        /\ Completed(t, "apply")
        /\ ret[t].errs = <<"extract">>
        /\ ret[t].status = "failed"
        /\ ret[t].pre.doc.current # None
        /\ ret[t].pre.doc.current # ret[t].rel.version
        /\ is_pid_running(doc.pid)

\* C18 (the claim as stated): when the download of an apply_release has failed on
\* a checksum mismatch, no file is at the destination incoming/<name>-<version>.artifact
C18_NoDestAfterMismatch ==
    \A t \in Threads :
        (/\ Completed(t, "apply")
         /\ ret[t].errs = <<"checksum">>) => ret[t].rel.version \notin incoming

\* C14 (the claim as stated): apply_release and remove_release never raise: every
\* call ends with a returned outcome, and the status of apply_release is noop,
\* running, rolled_back or failed
C14_NeverRaises ==
    \A t \in Threads :
        /\ Completed(t, "apply") =>
               ret[t].status \in {"noop", "running", "rolled_back", "failed"}
        /\ Completed(t, "remove") => ret[t].status \in {"removed", "noop", "stopped"}

\* attempt i (from 1) of the call with arguments a fails: the source is not
\* reachable, breaks off, or serves bytes that do not hash to the declared sha256
AttemptFails(a, i) ==
    \/ a.src[i] \in {"refused", "broken"}
    \/ a.src[i] # lower(a.checksum.hex)

\* the sleeps of k failed attempts that are each followed by another attempt
Backoffs(a, k) == [i \in 1..k |-> a.backoff * (2 ^ (i - 1))]

Below(p, q) == Len(q) <= Len(p) /\ SubSeq(p, 1, Len(q)) = q

\* the name, joined to the destination and normalised, lies outside it
NameOutside(name) == ~Below(abspath(join(Destination, name)), abspath(Destination))

\* C19: extract_archive of a tar or zip with a member whose name, joined to the
\* destination and normalised, lies outside the destination fails with the
\* blocked-entry error and has written no member, wherever the member stands
C19_TraversalBlockedFirst ==
    (/\ ar.phase = "done"
     /\ ar.archive.format \in {"tar", "zip"}
     /\ \E i \in DOMAIN ar.archive.members : NameOutside(ar.archive.members[i].name)) =>
        /\ ar.result.status = "Blocked archive entry outside destination"
        /\ ar.result.written = {}

\* C19 witness: the offending member is the last of the archive, after a member
\* that lies inside, and the extraction was refused with nothing written
C19_Witness ==
    /\ ar.phase = "done"
    /\ ar.archive.format = "tar"
    /\ Len(ar.archive.members) >= 2
    /\ ~NameOutside(ar.archive.members[1].name)
    /\ ar.archive.members[1].type = "file"
    /\ NameOutside(ar.archive.members[Len(ar.archive.members)].name)
    /\ ar.result.status = "Blocked archive entry outside destination"
    /\ ar.result.written = {}

\* the member is a link with a name inside the destination and a target outside
LinkEscapes(member) ==
    /\ member.type \in {"symlink", "hardlink"}
    /\ ~NameOutside(member.name)
    /\ ~Below(LinkTarget(Destination, member), abspath(Destination))

\* C20 (the claim as stated): extract_archive of a tar with a symlink or hardlink
\* member whose name lies inside the destination and whose target resolves outside
\* it fails
C20_LinkTargetsChecked ==
    (/\ ar.phase = "done"
     /\ ar.archive.format = "tar"
     /\ \E i \in DOMAIN ar.archive.members : LinkEscapes(ar.archive.members[i])) =>
        ar.result.status # "ok"

\* C12: save writes the whole document to <path>.tmp and renames it over <path>:
\* the state file is never written in place, and after a crash at any point
\* inside any mutator the next load reads the whole document committed before the
\* mutator or the whole new one, and nothing else
C12_AtomicSave ==
    /\ store.files[StatePath].written \in {"absent", "all"}
    /\ store.recovered => store.loaded \in {store.old, store.state}

\* C12 witness: the agent died while the text of a second document was partly
\* written, and the load after it read the first document whole
C12_Witness ==
    /\ store.recovered
    /\ store.files[tmp_path(StatePath)].written = "some"
    /\ store.old # DefaultDocument
    /\ store.loaded = store.old
    /\ store.loaded # store.state

Untouched(r) ==
    /\ doc = r.pre.doc
    /\ curLink = r.pre.curLink
    /\ prevLink = r.pre.prevLink
    /\ dirs = r.pre.dirs
    /\ r.starts = <<>>
    /\ r.killed = {}
    /\ r.trace = <<>>

\* the call ran the Start phase of `version` and nothing else: no install, no
\* activation, no rollback
StartPhaseOnly(r, version) ==
    /\ Len(r.trace) >= 1
    /\ r.trace[1] = "starting"
    /\ \A i \in 1..Len(r.trace) : r.trace[i] \in {"starting", "failed"}
    /\ Len(r.starts) = 1
    /\ r.starts[1][1] = version
    /\ r.killed = {}
    /\ r.status \in {"restarted", "failed"}
    /\ doc.current = version
    /\ doc.previous = r.pre.doc.previous
    /\ doc.releases = r.pre.doc.releases
    /\ curLink = r.pre.curLink
    /\ prevLink = r.pre.prevLink
    /\ dirs = r.pre.dirs

\* C27: on startup bootstrap removes every releases/*.tmp directory and, iff
\* state.current is set and the recorded pid is not alive, runs the Start phase for
\* the current release (no install, no activation, no rollback target); a stack
\* whose current is null or whose recorded pid is alive is left untouched.
C27_BootstrapRestartsOnlyDead ==
    \A t \in Threads :
        Completed(t, "bootstrap") =>
            LET r == ret[t] IN
            /\ tmps = {}
            /\ r.pre.doc.current = None => Untouched(r)
            /\ is_pid_running(r.pre.doc.pid) => Untouched(r)
            /\ (r.pre.doc.current # None /\ r.pre.doc.pid \notin r.pre.alive)
                   => StartPhaseOnly(r, r.pre.doc.current)

\* a bootstrap after a crash that found a .tmp directory and a current release
\* whose child was dead, and started it again
C27_Witness ==
    /\ Completed(MainThread, "bootstrap")
    /\ ret[MainThread].recovery
    /\ ret[MainThread].pre.tmps # {}
    /\ ret[MainThread].pre.doc.current # None
    /\ ret[MainThread].pre.doc.pid \notin ret[MainThread].pre.alive
    /\ ret[MainThread].status = "restarted"

\* C29: a child that exits at any time inside the start grace window is a start
\* failure whatever its exit code, 0 included, so that running is never returned
\* for it; a child still alive when the window ends is a successful start.
C29_ExitInWindowFails ==
    gr.phase = "done" =>
        /\ (gr.exited /\ gr.exited_at < gr.deadline) => gr.status # "running"
        /\ ~gr.exited => gr.status = "running"

\* the value a section gives for the field: none when the section is no dict
SectionValue(section) == IF section.dict THEN section.value ELSE Absent

\* the field by the precedence top-level key, stack sub-object,
\* features.stack.properties, metadata / attributes, an absent or empty value
\* falling through to the next place
ByPrecedence(payload) ==
    _first_str(<<payload.top, SectionValue(payload.stack),
                 SectionValue(payload.properties), payload.metadata, payload.last>>)

\* C28: parse_release_payload resolves each field by the precedence top-level key,
\* then the stack sub-object, then features.stack.properties, then metadata.* /
\* attributes.*: with the field in both stack and features.stack.properties the
\* value of stack is chosen, and a field absent or empty at one place falls through
\* to the next.
C28_FieldPrecedence ==
    pp.phase = "done" => pp.result.value = ByPrecedence(pp.payload)

\* the payload of the component does not decode, or does not parse
PayloadFails(component) ==
    LET extracted == _extract_stack_payload(EmptyRegistry, component, FALSE)
    IN  extracted.error # None \/ release_version(extracted.payload) = Absent

\* the version the payload of the component parses to
VersionOf(component) ==
    release_version(_extract_stack_payload(EmptyRegistry, component, FALSE).payload)

\* some desired component has no same-named component in current, or it has one
\* and a payload of the pair fails to decode or parse, or the two versions differ
UpdateCalledFor(desired, current) ==
    \E i \in 1..Len(desired) :
        \/ \A j \in 1..Len(current) : current[j].name # desired[i].name
        \/ \E j \in 1..Len(current) :
              /\ current[j].name = desired[i].name
              /\ \/ PayloadFails(desired[i])
                 \/ PayloadFails(current[j])
                 \/ VersionOf(desired[i]) # VersionOf(current[j])

\* C24: needs_update(desired, current) returns true iff some desired component
\* has no same-named component in current, or some same-named pair parses to
\* different versions, or a payload of such a pair fails to decode or parse; in
\* every other case it returns false.
C24_NeedsUpdateIff ==
    nu.phase = "done" => (nu.result <=> UpdateCalledFor(nu.desired, nu.current))

\* the component results with a failed state
FailedResults(results, failed_state) ==
    {i \in 1..Len(results) : results[i].state = failed_state}

\* C22: for an apply request each component whose engine outcome is running or
\* noop is reported UPDATED, and every other outcome (rolled_back, failed), decode
\* error or parse error UPDATE_FAILED; the target status is OK iff no component
\* failed, and else FAILED with the summary message "<N> component(s) failed during
\* apply", N the number of failed components.
C22_ApplyReport ==
    (pv.phase = "done" /\ pv.op = "apply") =>
        LET N == Cardinality(FailedResults(pv.results, "UPDATE_FAILED")) IN
        /\ Len(pv.results) = Len(pv.components)
        /\ \A i \in 1..Len(pv.results) :
              /\ pv.results[i].key = component_name(pv.components[i])
              /\ pv.results[i].state =
                    IF pv.results[i].cause \in {"running", "noop"}
                    THEN "UPDATED" ELSE "UPDATE_FAILED"
        /\ pv.status = IF N = 0 THEN "OK" ELSE "FAILED"
        /\ N > 0 => pv.message = [count |-> N, text |-> "component(s) failed during apply"]
        /\ N = 0 => pv.message = NoMessage

\* an apply of two components, one rolled back and one running
C22_Witness ==
    /\ pv.phase = "done"
    /\ pv.op = "apply"
    /\ Len(pv.results) = 2
    /\ \E i, j \in 1..2 :
          /\ pv.results[i].cause = "rolled_back"
          /\ pv.results[j].cause = "running"
    /\ pv.status = "FAILED"
    /\ pv.message.count = 1

\* the payload that the last apply of a component of this name has left in the
\* registry, if no remove has dropped it since
StoredFor(registry, component) == registry_get(registry, component_name(component))

\* C23: for a remove request a component without data uses the payload stored in
\* the registry by an earlier apply of the same component name (DELETE_FAILED if
\* there is none); the outcomes removed, rolled_back, stopped and noop give DELETED
\* and all others DELETE_FAILED; and a component name is dropped from the registry
\* exactly when its removal was reported DELETED.
C23_RemoveUsesRegistry ==
    (pv.phase = "done" /\ pv.op = "remove") =>
        /\ Len(pv.results) = Len(pv.components)
        /\ \A i \in 1..Len(pv.results) :
              LET component == pv.components[i]
                  result == pv.results[i]
                  key == component_name(component)
              IN  /\ result.key = key
                  /\ component.data = NoData =>
                        IF StoredFor(pv.pre, component) # Absent
                        THEN /\ result.payload = StoredFor(pv.pre, component)
                             /\ result.cause \in RemoveOutcomes
                        ELSE result.state = "DELETE_FAILED"
                  /\ result.state =
                        IF result.cause \in {"removed", "rolled_back", "stopped", "noop"}
                        THEN "DELETED" ELSE "DELETE_FAILED"
                  /\ key \in DOMAIN pv.pre =>
                        (key \notin DOMAIN pv.registry <=> result.state = "DELETED")
        /\ \A key \in DOMAIN pv.pre :
              (\A i \in 1..Len(pv.components) : component_name(pv.components[i]) # key)
                  => (key \in DOMAIN pv.registry /\ pv.registry[key] = pv.pre[key])
        /\ DOMAIN pv.registry \subseteq DOMAIN pv.pre

\* the worker threads that are running the heartbeat loop
Looping == {w \in Workers : is_alive(hb.worker, w)}

\* C25: across any sequence of start() and stop() calls, a stop() whose bounded
\* join returns during a tick and is followed by start() included, at most one
\* heartbeat worker thread is running its loop at any time.
C25_SingleWorker == Cardinality(Looping) <= 1

\* C26: an exception raised during a tick never ends the heartbeat loop, the
\* worker going on to its wait and its next check; and once stop() has set the
\* cancellation signal, the worker leaves its loop at its next check, so that it
\* eventually terminates.
C26_SwallowsAndStops ==
    /\ [][\A w \in Workers :
             (hb.worker[w] = "tick" /\ hb'.worker[w] # "tick") => hb'.worker[w] = "wait"]_vars
    /\ \A w \in Workers : (w \in hb.signalled) ~> (hb.worker[w] = "exited")

\* another thread is inside an operation on the stack that t is working on
SameStackBusy(t) ==
    \E u \in Threads \ {t} :
        lk.thr[u].pc = "body" /\ lk.thr[u].stack = lk.thr[t].stack

\* C30: operations on different stack names never block each other: a thread
\* that holds the mutex of stack A inside apply_release does not keep an
\* apply_release or remove_release on stack B from acquiring the mutex of B and
\* running to completion. A thread waits for a lock only while another thread is
\* inside an operation on the same stack, and a call that has begun completes
\* unless it hangs itself or the same stack stays busy.
C30_StacksIndependent ==
    /\ [](\A t \in Threads :
            (lk.thr[t].pc = "lock" /\ Holder(lk.locks, LockKey(lk.thr[t].stack)) # None)
                => SameStackBusy(t))
    /\ \A t \in Threads :
          (lk.thr[t].pc = "lock")
              ~> (lk.thr[t].pc = "done" \/ lk.thr[t].stalled \/ SameStackBusy(t))

\* one thread hangs inside apply_release on stack A, and the other has completed
\* an operation on stack B
C30_Witness ==
    /\ lk.thr["t1"].pc = "body"
    /\ lk.thr["t1"].op = "apply"
    /\ lk.thr["t1"].stack = "A"
    /\ lk.thr["t1"].stalled
    /\ lk.thr["t2"].pc = "done"
    /\ lk.thr["t2"].stack = "B"

\* apply_release ran without a previous version: state.previous was null and
\* state.current was null or the version applied
NoPreviousKnown(r) ==
    /\ r.pre.doc.previous = None
    /\ r.pre.doc.current \in {None, r.rel.version}

\* the start phase of the call failed: the spawn raised or the child left in the
\* grace window
StartPhaseFailed(r) ==
    /\ r.errs # <<>>
    /\ r.errs[1] \in {"spawn", "grace"}

OutsideDeployment(d) ==
    [current |-> d.current, previous |-> d.previous, pid |-> d.pid,
     started_at |-> d.started_at]

\* the call failed in its install phase
InstallPhaseFailed(r) ==
    /\ r.errs # <<>>
    /\ r.errs[1] \in {"download", "checksum", "extract"}

\* another version than the one applied was current, with a live child
OtherVersionRunning(r) ==
    /\ r.pre.doc.current \notin {None, r.rel.version}
    /\ r.pre.doc.pid # NoPid
    /\ r.pre.doc.pid \in r.pre.alive

\* C35: when apply_release for a new version fails in its install phase while
\* another version is current and running, state.current, state.previous,
\* process.pid, both symlinks and the running child are unchanged: the call stops
\* and starts no process, and only the deployment sub-document and the releases
\* map of the state document change.
C35_InstallFailureKeepsCurrent ==
    \A t \in Threads :
        (/\ Completed(t, "apply")
         /\ OtherVersionRunning(ret[t])
         /\ InstallPhaseFailed(ret[t])) =>
            LET r == ret[t] IN
            /\ r.status = "failed"
            /\ OutsideDeployment(doc) = OutsideDeployment(r.pre.doc)
            /\ curLink = r.pre.curLink
            /\ prevLink = r.pre.prevLink
            /\ dirs = r.pre.dirs
            /\ r.killed = {}
            /\ r.starts = <<>>
            /\ doc.releases = [r.pre.doc.releases EXCEPT ![r.rel.version] = r.rel]

\* the download of a second version has failed and the child of the first one
\* is still alive
C35_Witness ==
    /\ Completed(MainThread, "apply")
    /\ OtherVersionRunning(ret[MainThread])
    /\ ret[MainThread].errs = <<"checksum">>
    /\ is_pid_running(doc.pid)
    /\ doc.state = "failed"

\* C36: after an apply_release of version f that returns rolled_back with
\* version p, state.current is p and state.previous is f, the previous symlink
\* targets releases/f and the current symlink releases/p
C36_RollbackSwapsVersions ==
    \A t \in Threads :
        (Completed(t, "apply") /\ ret[t].status = "rolled_back") =>
            LET f == ret[t].rel.version
                p == ret[t].version
            IN  /\ doc.current = p
                /\ doc.previous = f
                /\ prevLink = RelPath(f)
                /\ curLink = RelPath(p)

\* a rollback has completed and the release rolled back to is up
C36_Witness ==
    /\ Completed(MainThread, "apply")
    /\ ret[MainThread].status = "rolled_back"
    /\ \E i \in 1..Len(ret[MainThread].trace) : ret[MainThread].trace[i] = "rollback"
    /\ doc.previous = ret[MainThread].rel.version
    /\ is_pid_running(doc.pid)

\* C37 (the claim as stated): between the calls of any sequence of apply_release
\* and remove_release, a non-null state.previous names a version whose release
\* directory exists
C37_PreviousHasDirectory ==
    (\A t \in Threads : pc[t] = "idle") =>
        (doc.previous # None => doc.previous \in dirs)

\* the link a version recorded in the state document is mirrored by
LinkFor(version) == IF version = None THEN NoLink ELSE RelPath(version)

\* C38: after every completed sequential apply_release, remove_release or
\* restart_current_if_needed the symlinks mirror the state document: the current
\* symlink exists iff state.current is non-null and then targets
\* releases/<current>, and the previous symlink exists iff state.previous is
\* non-null and then targets releases/<previous>
C38_LinksMirrorState ==
    (pc[MainThread] = "idle" /\ ret[MainThread].op \in {"apply", "remove", "restart"}) =>
        /\ curLink = LinkFor(doc.current)
        /\ prevLink = LinkFor(doc.previous)

\* the current release of a stack that has a previous one has been removed: only
\* the previous link is left
C38_Witness ==
    /\ Completed(MainThread, "remove")
    /\ ret[MainThread].status = "stopped"
    /\ doc.current = None
    /\ curLink = NoLink
    /\ doc.previous # None
    /\ prevLink = RelPath(doc.previous)

\* C39 (the claim as stated): after a completed sequential apply_release,
\* remove_release or restart_current_if_needed, a persisted deployment.state of
\* running comes with a non-null state.current and a recorded process.pid
C39_RunningHasCurrentAndPid ==
    (pc[MainThread] = "idle" /\ ret[MainThread].op \in {"apply", "remove", "restart"}) =>
        (doc.state = "running" => (doc.current # None /\ doc.pid # NoPid))

\* how often deployment.state was written as `label` in the trace
RECURSIVE Written(_, _)
Written(trace, label) ==
    IF trace = <<>> THEN 0
    ELSE (IF Head(trace) = label THEN 1 ELSE 0) + Written(Tail(trace), label)

\* what an apply_release has done so far, or did: at most one rollback and at
\* most two children, the target and then the previous release
OneRollback(h) ==
    /\ Written(h.trace, "rollback") <= 1
    /\ Len(h.starts) <= 2
    /\ Len(h.starts) >= 1 => h.starts[1][1] = h.rel.version
    /\ Len(h.starts) = 2 =>
          /\ Written(h.trace, "rollback") = 1
          /\ h.starts[2][1] = h.pre.doc.current \/ h.starts[2][1] = h.pre.doc.previous

\* the start of the rollback release has failed too
RollbackStartFailed(r) ==
    /\ Written(r.trace, "rollback") = 1
    /\ Len(r.errs) = 2
    /\ r.errs[2] \in {"spawn", "grace"}

\* C33: every apply_release call terminates (the calls of a behaviour are
\* bounded, so the thread ends up idle for good) and attempts at most one rollback: it
\* starts at most two child processes, the target and, when the target's start
\* fails, the previous release; a start failure of the rollback release yields
\* failed without a further rollback
C33_TerminatesWithOneRollback ==
    /\ [](\A t \in Threads :
            /\ (pc[t] # "idle" /\ loc[t].op = "apply") => OneRollback(loc[t])
            /\ Completed(t, "apply") =>
                  /\ OneRollback(ret[t])
                  /\ RollbackStartFailed(ret[t]) => ret[t].status = "failed")
    /\ <>[](pc[MainThread] = "idle")

\* the target and then the rollback release were started and both exited in the
\* grace window: the call has ended with failed
C33_Witness ==
    /\ Completed(MainThread, "apply")
    /\ ret[MainThread].status = "failed"
    /\ Len(ret[MainThread].starts) = 2
    /\ ret[MainThread].errs = <<"grace", "grace">>

\* C40: the mutex of the stack is released on every exit path of apply_release
\* and remove_release, returns and raised exceptions alike: a thread that is not
\* in a call does not hold it, and no call waits for it for ever, so that every
\* behaviour of sequential calls ends with the thread idle and the mutex free
C40_MutexAlwaysReleased ==
    /\ [](\A t \in Threads : pc[t] = "idle" => lock # t)
    /\ <>[](pc[MainThread] = "idle" /\ lock = None)

\* a call that follows an apply_release which raised in the middle of its
\* rollback (deployment.state is still rollback) has acquired the mutex
C40_Witness ==
    /\ pc[MainThread] \in {"a_ensure", "r_load"}
    /\ lock = MainThread
    /\ calls = 2
    /\ doc.state = "rollback"

\* the signals of the log come in the order of the escalation: the stop command,
\* if any, first and once; a SIGKILL only after a SIGTERM and a full wait
Escalation(log, stop_command) ==
    /\ stop_command # None => (log # <<>> /\ log[1].sig = "command")
    /\ \A i \in 1..Len(log) :
          /\ log[i].sig = "command" => (i = 1 /\ stop_command # None)
          /\ log[i].sig = "SIGKILL" =>
                /\ log[i].waited = MaxStopPolls
                /\ i > 1 /\ log[i - 1].sig = "SIGTERM"

\* C34 (the claim as stated): _stop_current_process with a recorded pid runs the
\* stop command (if any) first, sends terminate only to a pid that is still alive
\* afterwards, force-kills only a pid still alive after stop_timeout_seconds, and
\* always ends with process.pid and process.started_at cleared; it never raises
\* into the enclosing apply_release or remove_release. With no recorded pid it
\* changes nothing.
C34_StopEscalatesAndClears ==
    sp.phase = "done" =>
        IF sp.pid = NoPid
        THEN /\ sp.outcome = "returned"
             /\ sp.log = <<>>
             /\ sp.state = _default_state
        ELSE /\ sp.outcome = "returned"
             /\ sp.state.pid = NoPid
             /\ sp.state.started_at = FALSE
             /\ Escalation(sp.log, sp.stop_command)

\* the data of the component cannot be decoded to a payload, or the payload lacks
\* a required field or holds a blank string for it
Rejected(component) ==
    \/ component.data \in {NoData, Garbage}
    \/ component.data.body \in InvalidPayloads

\* C31: in an apply request a component whose payload cannot be decoded or lacks
\* (or has blank) any of name, version, artifact uri, artifact checksum or
\* start_command is reported UPDATE_FAILED with a message; the engine is not
\* called for it (its result stems from no outcome of the engine), the registry
\* entry of its name is as before the request, and the other components of the
\* request are processed: each has its result, from an outcome of the engine
C31_RejectedComponentSkipped ==
    (pv.phase = "done" /\ pv.op = "apply") =>
        /\ Len(pv.results) = Len(pv.components)
        /\ \A i \in 1..Len(pv.components) :
              LET component == pv.components[i]
                  result == pv.results[i]
              IN  /\ result.key = component_name(component)
                  /\ IF Rejected(component)
                     THEN /\ result.state = "UPDATE_FAILED"
                          /\ result.cause \notin ApplyOutcomes \cup {None, ""}
                          /\ registry_get(pv.registry, result.key)
                                = registry_get(pv.pre, result.key)
                     ELSE result.cause \in ApplyOutcomes

\* a request of two components: the first has a blank checksum and is reported
\* failed, the second is applied, runs and is registered
C31_Witness ==
    /\ pv.phase = "done"
    /\ pv.op = "apply"
    /\ Len(pv.components) = 2
    /\ pv.components[1].data = DictData("blank checksum")
    /\ pv.results[1].state = "UPDATE_FAILED"
    /\ pv.results[2].cause = "running"
    /\ DOMAIN pv.registry = {pv.results[2].key}

====
